---- MODULE Spec2Model ----
(***************************************************************************)
(* Model of the live simulation kernel of homeiq-sim:                      *)
(*   runtime/clock.py  SimulationClock                                     *)
(*   runtime/state.py  EntityState, StateManager                           *)
(*   runtime/loop.py   ScheduledTask, EventLoop                            *)
(* and of what drives it:                                                  *)
(*   behaviors/base.py, light.py, cover.py, climate.py, sensor.py,         *)
(*   switch.py         the engines                                         *)
(*   behaviors/occupancy.py  OccupancySimulator                            *)
(*   api/services.py   ServiceRegistry                                     *)
(*   model/profiles.py sample_profile_counts                               *)
(* Python objects that are shared by reference (EntityState instances and  *)
(* the dicts they point to) live in two heaps, recs and dicts; a reference *)
(* is an index into the heap and 0 is Python's None.  Optional values that *)
(* are not references are sequences of length at most one.                 *)
(***************************************************************************)
EXTENDS Integers, Sequences, FiniteSets, TLC

\* ------------------------------------------------------------- bounds
MaxWall == 2          \* wall-clock seconds that pass
MaxWrites == 3        \* set_state calls in one behaviour
MaxHistory == 1       \* largest max_history a StateManager is built with
MaxAliasWrites == 2   \* set_state calls of a caller that keeps its references
MaxSpeed == 2         \* largest clock speed
MaxRecs == 4          \* EntityState objects alive at once
MaxDicts == 6         \* dict objects alive at once
MaxTasks == 2         \* schedule_task / schedule_at / schedule_interval calls
MaxWorkers == 2       \* EventLoop.start() calls that create a thread
MaxDelay == 1         \* largest delay / run_at offset a task is scheduled with
MaxRepeat == 2        \* largest repeat interval
MaxCalls == 3         \* clock method calls of a caller whose calls are logged
MaxJump == 1          \* largest time set_time jumps to
MaxTarget == 3        \* largest target wall_time_until is asked about
MaxTicks == 1         \* runs of an engine's interval callback for one entity
MaxRawEntities == 100 \* largest integer part of a sampled entity count
MaxRawDevices == 20   \* largest integer part of a sampled device count

\* ------------------------------------------------------------- values
None == << >>
Some(v) == << v >>
IsNone(o) == o = << >>
Val(o) == o[1]

Entities == {"light.a", "light.b"}
\* Every id a caller passes: the ids above, ids of the other engines, and
\* strings that are not of the form <domain>.<name>
Ids == Entities \cup {"cover.a", "climate.a", "light.", "light.a.b", "kitchen",
                     "sensor.energy", "sensor.power", "switch.a",
                     "binary_sensor.h_motion_kitchen", "person.h"}
Domains == {"light", "cover", "climate"}
\* Every domain that has an engine
EngineDomains == Domains \cup {"sensor", "switch"}
StateValues == {"on", "off"}
EmptyDict == {}
AttrDicts == {EmptyDict, {<<"brightness", 1>>}}
ContextDicts == {{<<"id", 1>>}}
RecRefs == 1..MaxRecs
DictRefs == 1..MaxDicts
Threads == {1, 2}          \* 1: the scheduler worker, 2: an API thread
ListenerIds == {1, 2}      \* the REST adapter's and the WebSocket adapter's callback
Speeds == 1..MaxSpeed
SpeedArgs == {-1, 0} \cup Speeds   \* what set_speed is called with
Deltas == {1}                      \* what advance is called with
Targets == 0..MaxTarget            \* what wall_time_until is called with

VARIABLES
    wall,          \* time.time() / datetime.now(timezone.utc), in seconds
    clock,         \* the SimulationClock's fields
    calls,         \* observer: the clock methods a logging caller has called, in order
    dicts,         \* heap of dict objects: reference -> content, None if the slot is free
    recs,          \* heap of EntityState objects, likewise
    states,        \* StateManager._states: entity_id -> reference into recs, 0 if absent
    history,       \* StateManager._history: entity_id -> list of EntityState clones
    max_history,   \* StateManager._max_history
    listeners,     \* StateManager._listeners
    lockOwner,     \* StateManager._lock: owning thread, 0 if free
    lockCount,     \* StateManager._lock: recursion level
    pc,            \* position of each thread inside set_state
    frame,         \* the locals of each thread's set_state call
    heldDicts,     \* dict references that callers of the store hold
    heldRecs,      \* EntityState references that callers of the store hold
    writes,        \* number of set_state calls made so far
    commitLog,     \* observer: sequence numbers of the notifying writes, in commit order
    received,      \* observer: per listener, what it was called with
    regAt,         \* observer: per listener, Len(commitLog) when it was added
    writeSim,      \* observer: per entity, clock.now() when its record was written
    tasks,         \* EventLoop._tasks: the heapq list of ScheduledTask objects
    running,       \* EventLoop._running
    stop_event,    \* EventLoop._stop_event
    thread,        \* EventLoop._thread: the worker last started, 0 if None
    task_counter,  \* EventLoop._task_counter
    wpc,           \* position of each worker thread inside _run_loop
    wnow,          \* each worker's local `now`
    wtask,         \* each worker's local `task`
    mpc,           \* position of the thread that calls start() / stop()
    scheduled,     \* number of schedule calls made so far
    cancelled,     \* observer: the ids cancel_task returned True for
    wlast,         \* observer: per worker, the run_at of the last two tasks it
                   \* popped in its current iteration
    entities,      \* BehaviorEngine._entities of each engine: domain -> set of ids
    eng,           \* the locals of each thread's ServiceRegistry.call_service call
    occ,           \* the OccupancySimulator's fields and the position of its tick
    counts,        \* the raw samples and the result of a sample_profile_counts call
    api            \* the locals of each thread's schedule_task call

clockVars == << clock, calls >>
storeVars == << dicts, recs, states, history, max_history, listeners, lockOwner,
                lockCount, pc, frame, heldDicts, heldRecs, writes, commitLog,
                received, regAt, writeSim >>
loopVars == << tasks, running, stop_event, thread, task_counter, wpc, wnow, wtask,
               mpc, scheduled, cancelled, wlast >>
engineVars == << entities, eng >>
homeVars == << occ, counts >>
vars == << wall, clockVars, storeVars, loopVars, engineVars, homeVars, api >>
notStore == << wall, clockVars, loopVars, engineVars, homeVars, api >>
notClock == << wall, storeVars, loopVars, engineVars, homeVars, api >>
notLoop == << wall, clockVars, storeVars, engineVars, homeVars, api >>
notEngine == << wall, clockVars, storeVars, loopVars, homeVars, api >>
notHome == << wall, clockVars, storeVars, loopVars, engineVars, api >>
notCall == << wall, clockVars, storeVars, engineVars, homeVars >>
ambient == << wall, clockVars, loopVars, homeVars, api >>

\* ------------------------------------------------------------- SimulationClock
\* SimulationClock.__init__
ClockInit(start, w, speed, paused) ==
    [ start_time |-> start, sim_time |-> start, wall_start |-> w,
      speed |-> speed, paused |-> paused,
      pause_time |-> None, pause_sim_time |-> None ]

\* SimulationClock.now: `self._pause_sim_time or self._sim_time` when paused
ClockNow(c, w) ==
    IF c.paused
    THEN IF IsNone(c.pause_sim_time) THEN c.sim_time ELSE Val(c.pause_sim_time)
    ELSE c.start_time + (w - c.wall_start) * c.speed

\* SimulationClock.set_time
ClockSetTime(c, w, t) ==
    [ c EXCEPT !.start_time = t, !.wall_start = w,
               !.pause_sim_time = IF c.paused THEN Some(t) ELSE @ ]

\* A set_speed that accepts every speed
SetSpeedNeverRaises(s) == FALSE

\* SimulationClock.set_speed, clock.py 69-70: `if speed <= 0: raise ValueError`
SetSpeedRaises(s) == s <= 0

\* A set_speed that changes the speed and keeps the anchors
ClockSetSpeedKeepAnchor(c, w, s) == [ c EXCEPT !.speed = s ]

\* SimulationClock.set_speed, clock.py 72-77, reached when nothing was raised
ClockSetSpeed(c, w, s) ==
    [ c EXCEPT !.start_time = ClockNow(c, w), !.wall_start = w, !.speed = s ]

\* A pause that captures the running formula's value on every call
ClockPauseRecapture(c, w) ==
    [ c EXCEPT !.pause_time = Some(w),
               !.pause_sim_time = Some(c.start_time + (w - c.wall_start) * c.speed),
               !.paused = TRUE ]

\* SimulationClock.pause
ClockPause(c, w) ==
    IF ~c.paused
    THEN [ c EXCEPT !.pause_time = Some(w), !.pause_sim_time = Some(ClockNow(c, w)),
                    !.paused = TRUE ]
    ELSE c

\* A resume that keeps the anchors it had before the pause
ClockResumeKeepAnchor(c, w) ==
    IF c.paused
    THEN [ c EXCEPT !.paused = FALSE, !.pause_time = None, !.pause_sim_time = None ]
    ELSE c

\* SimulationClock.resume
ClockResume(c, w) ==
    IF c.paused
    THEN [ c EXCEPT !.start_time = ClockNow(c, w), !.wall_start = w,
                    !.paused = FALSE, !.pause_time = None, !.pause_sim_time = None ]
    ELSE c

\* SimulationClock.advance: set_time(now() + delta)
ClockAdvance(c, w, delta) == ClockSetTime(c, w, ClockNow(c, w) + delta)

\* SimulationClock.time_until
TimeUntil(c, w, target) ==
    IF target <= ClockNow(c, w) THEN None ELSE Some(target - ClockNow(c, w))

\* SimulationClock.wall_time_until: sim_seconds / speed, kept as a fraction
WallTimeUntil(c, w, target) ==
    IF IsNone(TimeUntil(c, w, target)) THEN None
    ELSE Some([ num |-> Val(TimeUntil(c, w, target)), den |-> c.speed ])

\* wall time passes
Tick ==
    /\ wall < MaxWall
    /\ wall' = wall + 1
    /\ UNCHANGED << clockVars, storeVars, loopVars, engineVars, homeVars, api >>

\* The clock's methods write the clock; what becomes of the log of calls is
\* said by the caller: Logged for one that logs, Unlogged for any other.
Pause ==
    /\ clock' = ClockPause(clock, wall)
    /\ UNCHANGED notClock

Resume ==
    /\ clock' = ClockResume(clock, wall)
    /\ UNCHANGED notClock

\* set_speed(s): raises and writes nothing, or re-anchors and sets the speed
SetSpeed(s) ==
    /\ clock' = IF SetSpeedRaises(s) THEN clock ELSE ClockSetSpeed(clock, wall, s)
    /\ UNCHANGED notClock

SetTime(t) ==
    /\ clock' = ClockSetTime(clock, wall, t)
    /\ UNCHANGED notClock

Advance(delta) ==
    /\ clock' = ClockAdvance(clock, wall, delta)
    /\ UNCHANGED notClock

\* The caller notes the call it has just made: the method, its argument (0
\* if it has none), the wall time, and whether the call raised
Logged(op, arg, raised) ==
    /\ Len(calls) < MaxCalls
    /\ calls' = Append(calls, [ op |-> op, arg |-> arg, at |-> wall, raised |-> raised ])

Unlogged == calls' = calls

\* ------------------------------------------------------------- heap
\* The lowest free slot of a heap, 0 if it is full
FirstFree(h) ==
    IF \E r \in DOMAIN h : IsNone(h[r])
    THEN CHOOSE r \in DOMAIN h : IsNone(h[r]) /\ \A q \in DOMAIN h : IsNone(h[q]) => r <= q
    ELSE 0

Alloc(h, v) == [h EXCEPT ![FirstFree(h)] = Some(v)]

\* Reference counting: an object nothing refers to is freed
Sweep(h, live) == [r \in DOMAIN h |-> IF r \in live THEN h[r] ELSE None]

LiveRecs(sts, frm, held) ==
    ({ sts[e] : e \in Ids } \cup { frm[t].old_state : t \in Threads }
       \cup { frm[t].new_state : t \in Threads } \cup held) \ {0}

LiveDicts(rs, frm, held) ==
    (held \cup { frm[t].attributes : t \in Threads }
          \cup { frm[t].context : t \in Threads }
          \cup { Val(rs[r]).attributes : r \in { q \in RecRefs : ~IsNone(rs[q]) } }
          \cup { Val(rs[r]).context : r \in { q \in RecRefs : ~IsNone(rs[q]) } }) \ {0}

\* ------------------------------------------------------------- EntityState
\* EntityState.clone of the object at ref: a deep copy, handed out as a value;
\* an empty or missing context is cloned to None (`if self.context else None`)
CloneIn(rs, ds, ref) ==
    LET r == Val(rs[ref])
    IN  [ entity_id    |-> r.entity_id,
          state        |-> r.state,
          attributes   |-> Val(ds[r.attributes]),
          last_changed |-> r.last_changed,
          last_updated |-> r.last_updated,
          context      |-> IF r.context = 0 THEN None
                           ELSE IF Val(ds[r.context]) = EmptyDict THEN None
                           ELSE Some(Val(ds[r.context])) ]

Clone(ref) == CloneIn(recs, dicts, ref)

\* ------------------------------------------------------------- StateManager
\* list[-n:] as Python evaluates it: -0 is 0, so n = 0 keeps the whole list
SliceLast(h, n) ==
    LET start == IF n = 0 THEN 0
                 ELSE IF Len(h) - n < 0 THEN 0 ELSE Len(h) - n
    IN  SubSeq(h, start + 1, Len(h))

\* state.py 108-109: trim the history when it is longer than max_history
TrimHistory(h, n) == IF Len(h) > n THEN SliceLast(h, n) ELSE h

\* StateManager.get_state
GetState(e) == IF states[e] = 0 THEN None ELSE Some(Clone(states[e]))

\* StateManager.get_history without a time filter
GetHistory(e) == history[e]

\* StateManager.get_history with start_time / end_time (both Optional)
GetHistoryBetween(e, start, end) ==
    SelectSeq(history[e],
              LAMBDA st : /\ (IsNone(start) \/ ~(st.last_updated < Val(start)))
                          /\ (IsNone(end) \/ ~(st.last_updated > Val(end))))

\* A store whose lock never blocks
LockAvailableNoLock(t) == TRUE

\* `with self._lock`: an RLock is free or already owned by the caller
LockAvailable(t) == lockOwner = 0 \/ lockOwner = t

IdleFrame ==
    [ entity_id |-> "light.a", state |-> "off", attributes |-> 0, context |-> 0,
      force_update |-> FALSE, old_state |-> 0, state_changed |-> FALSE,
      new_state |-> 0, seq |-> 0, idx |-> 0, failed |-> {}, raised |-> FALSE ]

\* A caller enters set_state(e, s, a, c, f).  a and c are references: 0 (None), a dict the caller already holds, or
\* MaxDicts + 1 for a dict the caller creates for this call, with content
\* av / cv.
EnterSetState(t, e, s, a, av, c, cv, f) ==
    LET d1 == IF a = MaxDicts + 1 THEN Alloc(dicts, av) ELSE dicts
        ar == IF a = MaxDicts + 1 THEN FirstFree(dicts) ELSE a
        d2 == IF c = MaxDicts + 1 THEN Alloc(d1, cv) ELSE d1
        cr == IF c = MaxDicts + 1 THEN FirstFree(d1) ELSE c
    IN  /\ pc[t] = "idle"
        /\ a \in {0, MaxDicts + 1} \cup heldDicts
        /\ c \in {0, MaxDicts + 1} \cup heldDicts
        /\ a = MaxDicts + 1 => FirstFree(dicts) # 0
        /\ c = MaxDicts + 1 => FirstFree(d1) # 0
        /\ dicts' = d2
        /\ heldDicts' = heldDicts \cup ({ar, cr} \ {0})
        /\ writes' = writes + 1
        /\ pc' = [pc EXCEPT ![t] = "acquire"]
        /\ frame' = [frame EXCEPT ![t] =
                        [ IdleFrame EXCEPT !.entity_id = e, !.state = s,
                                           !.attributes = ar, !.context = cr,
                                           !.force_update = f ]]
        /\ UNCHANGED << recs, states, history, max_history, listeners,
                        lockOwner, lockCount, heldRecs, commitLog, received, regAt,
                        writeSim >>

\* set_state called by a caller outside the engines (the REST route
\* rest.py 119-127, a test, a script)
CallSetState(t, e, s, a, av, c, cv, f) ==
    EnterSetState(t, e, s, a, av, c, cv, f) /\ UNCHANGED notStore

\* state.py 80: `with self._lock:` is entered once the lock is available
Acquire(t) ==
    /\ pc[t] = "acquire"
    /\ LockAvailable(t)
    /\ lockOwner' = t
    /\ lockCount' = lockCount + 1
    /\ pc' = [pc EXCEPT ![t] = "body"]
    /\ UNCHANGED << notStore, dicts, recs, states, history, max_history, listeners,
                    frame, heldDicts, heldRecs, writes, commitLog, received, regAt,
                    writeSim >>

\* Stamps with the two fields swapped
StampsSwapped(changed, now, old_last_changed) ==
    [ last_changed |-> now,
      last_updated |-> IF changed THEN now ELSE old_last_changed ]

\* state.py 96-98: last_changed = now if state_changed else
\* old_state.last_changed; last_updated = now
Stamps(changed, now, old_last_changed) ==
    [ last_changed |-> IF changed THEN now ELSE old_last_changed,
      last_updated |-> now ]

\* state.py 81-111: stamp, compare with the stored record, build the new
\* record, push a clone of the old one to the history, store the new one
Body(t) ==
    LET f    == frame[t]
        e    == f.entity_id
        now  == wall                                   \* datetime.now(timezone.utc)
        fresh == IF f.attributes = 0 THEN TRUE
                 ELSE Val(dicts[f.attributes]) = EmptyDict
        dicts1 == IF fresh THEN Alloc(dicts, EmptyDict) ELSE dicts
        attrs == IF fresh THEN FirstFree(dicts) ELSE f.attributes   \* attributes or {}
        old  == states[e]
        changed == IF old = 0 THEN TRUE
                   ELSE \/ Val(recs[old]).state # f.state
                        \/ Val(dicts[Val(recs[old]).attributes]) # Val(dicts1[attrs])
        stamps == Stamps(changed, now,
                         IF old = 0 THEN now ELSE Val(recs[old]).last_changed)
        new  == [ entity_id    |-> e,
                  state        |-> f.state,
                  attributes   |-> attrs,
                  last_changed |-> stamps.last_changed,
                  last_updated |-> stamps.last_updated,
                  context      |-> f.context ]
        ref  == FirstFree(recs)
        notify == changed \/ f.force_update
    IN  /\ pc[t] = "body"
        /\ fresh => FirstFree(dicts) # 0
        /\ ref # 0
        /\ dicts' = dicts1
        /\ recs' = Alloc(recs, new)
        /\ history' = IF old # 0 /\ changed
                      THEN [history EXCEPT ![e] =
                               TrimHistory(Append(history[e], Clone(old)), max_history)]
                      ELSE history
        /\ states' = [states EXCEPT ![e] = ref]
        /\ commitLog' = IF notify THEN Append(commitLog, Len(commitLog) + 1)
                        ELSE commitLog
        /\ writeSim' = [writeSim EXCEPT ![e] = Some(ClockNow(clock, wall))]
        /\ frame' = [frame EXCEPT ![t].old_state = old, ![t].state_changed = changed,
                                  ![t].new_state = ref,
                                  ![t].seq = IF notify THEN Len(commitLog) + 1 ELSE 0,
                                  ![t].idx = 1]
        /\ pc' = [pc EXCEPT ![t] = IF notify THEN "notify" ELSE "return"]
        /\ UNCHANGED << notStore, max_history, listeners, lockOwner, lockCount,
                        heldDicts, heldRecs, writes, received, regAt >>

\* A fan-out that an exception of a listener ends
FanOutStopsOnError(raises) == ~raises

\* state.py 234-238: the call of the listener is in a try block whose
\* `except Exception` prints the error, so the loop goes on either way
FanOutGoesOn(raises) == TRUE

\* state.py 233-238: one iteration of `for listener in self._listeners`; the
\* listener is called with clones and returns or raises.  frame.failed
\* notes the listeners that raised; an exception that nothing caught would
\* leave set_state (frame.raised) through the `with` block.
Notify(t, raises) ==
    /\ pc[t] = "notify"
    /\ IF frame[t].idx <= Len(listeners)
       THEN /\ received' = [received EXCEPT ![listeners[frame[t].idx]] =
                               Append(@, [ seq |-> frame[t].seq, by |-> t,
                                           entity_id |-> Clone(frame[t].new_state).entity_id ])]
            /\ frame' = [frame EXCEPT
                            ![t].idx = @ + 1,
                            ![t].failed = IF raises THEN @ \cup {listeners[frame[t].idx]}
                                          ELSE @,
                            ![t].raised = ~FanOutGoesOn(raises)]
            /\ pc' = IF FanOutGoesOn(raises) THEN pc ELSE [pc EXCEPT ![t] = "return"]
       ELSE /\ pc' = [pc EXCEPT ![t] = "return"]
            /\ UNCHANGED << received, frame >>
    /\ UNCHANGED << notStore, dicts, recs, states, history, max_history,
                    listeners, lockOwner, lockCount, heldDicts, heldRecs, writes,
                    commitLog, regAt, writeSim >>

\* state.py 117: `return new_state` leaves the `with` block.  The caller
\* either keeps the returned object and the dicts it passed (keep) or drops
\* every reference it got from this call.
Return(t, keep) ==
    /\ pc[t] = "return"
    /\ lockCount' = lockCount - 1
    /\ lockOwner' = IF lockCount - 1 <= 0 THEN 0 ELSE lockOwner
    /\ heldRecs' = IF keep THEN heldRecs \cup {frame[t].new_state} ELSE heldRecs
    /\ heldDicts' = IF keep THEN heldDicts
                    ELSE heldDicts \ {frame[t].attributes, frame[t].context}
    /\ pc' = [pc EXCEPT ![t] = "idle"]
    /\ frame' = [frame EXCEPT ![t] = IdleFrame]
    /\ recs' = Sweep(recs, LiveRecs(states, frame', heldRecs'))
    /\ dicts' = Sweep(dicts, LiveDicts(recs', frame', heldDicts'))
    /\ UNCHANGED << notStore, states, history, max_history, listeners, writes,
                    commitLog, received, regAt, writeSim >>

\* StateManager.remove_state
RemoveState(t, e) ==
    /\ pc[t] = "idle"
    /\ LockAvailable(t)
    /\ states[e] # 0
    /\ states' = [states EXCEPT ![e] = 0]
    /\ history' = [history EXCEPT ![e] = << >>]
    /\ writeSim' = [writeSim EXCEPT ![e] = None]
    /\ recs' = Sweep(recs, LiveRecs(states', frame, heldRecs))
    /\ dicts' = Sweep(dicts, LiveDicts(recs', frame, heldDicts))
    /\ UNCHANGED << notStore, max_history, listeners, lockOwner,
                    lockCount, pc, frame, heldDicts, heldRecs, writes, commitLog,
                    received, regAt >>

InList(l, x) == \E i \in 1..Len(l) : l[i] = x

\* StateManager.add_listener
AddListener(t, l) ==
    /\ pc[t] = "idle"
    /\ LockAvailable(t)
    /\ ~InList(listeners, l)
    /\ listeners' = Append(listeners, l)
    /\ regAt' = [regAt EXCEPT ![l] = Len(commitLog)]
    /\ received' = [received EXCEPT ![l] = << >>]
    /\ UNCHANGED << notStore, dicts, recs, states, history, max_history,
                    lockOwner, lockCount, pc, frame, heldDicts, heldRecs, writes,
                    commitLog, writeSim >>

\* StateManager.remove_listener
RemoveListener(t, l) ==
    /\ pc[t] = "idle"
    /\ LockAvailable(t)
    /\ InList(listeners, l)
    /\ listeners' = SelectSeq(listeners, LAMBDA x : x # l)
    /\ received' = [received EXCEPT ![l] = << >>]
    /\ UNCHANGED << notStore, dicts, recs, states, history, max_history,
                    lockOwner, lockCount, pc, frame, heldDicts, heldRecs, writes,
                    commitLog, regAt, writeSim >>

\* The dicts a caller can reach: those it passed to set_state, and the
\* attributes / context of the records set_state returned to it
ReachableDicts ==
    (heldDicts \cup { Val(recs[r]).attributes : r \in heldRecs }
               \cup { Val(recs[r]).context : r \in heldRecs }) \ {0}

\* A caller writes into a dict it can reach
MutateDict(d, v) ==
    /\ d \in ReachableDicts
    /\ Val(dicts[d]) # v
    /\ dicts' = [dicts EXCEPT ![d] = Some(v)]
    /\ UNCHANGED << notStore, recs, states, history, max_history, listeners,
                    lockOwner, lockCount, pc, frame, heldDicts, heldRecs, writes,
                    commitLog, received, regAt, writeSim >>

\* A caller assigns the state field of a record set_state returned to it
MutateRec(r, s) ==
    /\ r \in heldRecs
    /\ Val(recs[r]).state # s
    /\ recs' = [recs EXCEPT ![r] = Some([Val(@) EXCEPT !.state = s])]
    /\ UNCHANGED << notStore, dicts, states, history, max_history, listeners,
                    lockOwner, lockCount, pc, frame, heldDicts, heldRecs, writes,
                    commitLog, received, regAt, writeSim >>

\* ------------------------------------------------------------- heapq
\* ScheduledTask.__lt__
TaskLess(x, y) == x.run_at < y.run_at

\* heapq._siftdown(heap, startpos, pos), positions counted from 0
RECURSIVE SiftDownFrom(_, _, _, _)
SiftDownFrom(h, newitem, startpos, pos) ==
    IF pos > startpos
    THEN LET parentpos == (pos - 1) \div 2
         IN  IF TaskLess(newitem, h[parentpos + 1])
             THEN SiftDownFrom([h EXCEPT ![pos + 1] = h[parentpos + 1]],
                               newitem, startpos, parentpos)
             ELSE [h EXCEPT ![pos + 1] = newitem]
    ELSE [h EXCEPT ![pos + 1] = newitem]

HeapSiftDown(h, startpos, pos) == SiftDownFrom(h, h[pos + 1], startpos, pos)

\* heapq._siftup(heap, pos): bubble the smaller child up to a leaf, then
\* sift the item down from there
RECURSIVE SiftUpFrom(_, _, _, _)
SiftUpFrom(h, newitem, startpos, pos) ==
    LET childpos == 2 * pos + 1
        rightpos == childpos + 1
        c == IF rightpos < Len(h) /\ ~TaskLess(h[childpos + 1], h[rightpos + 1])
             THEN rightpos ELSE childpos
    IN  IF childpos < Len(h)
        THEN SiftUpFrom([h EXCEPT ![pos + 1] = h[c + 1]], newitem, startpos, c)
        ELSE HeapSiftDown([h EXCEPT ![pos + 1] = newitem], startpos, pos)

HeapSiftUp(h, pos) == SiftUpFrom(h, h[pos + 1], pos, pos)

\* heapq.heappush
HeapPush(h, x) == HeapSiftDown(Append(h, x), 0, Len(h))

\* heapq.heappop: the item returned, and the heap left
HeapTop(h) == h[1]
HeapRest(h) ==
    IF Len(h) = 1 THEN << >>
    ELSE HeapSiftUp([SubSeq(h, 1, Len(h) - 1) EXCEPT ![1] = h[Len(h)]], 0)

\* ------------------------------------------------------------- EventLoop
\* ScheduledTask.__init__; due is an observer: the firing time a drift-free
\* schedule (first run_at plus a multiple of repeat) gives the task
NewTask(run_at, repeat, id) ==
    [ run_at |-> run_at, repeat |-> repeat, task_id |-> Some(id), due |-> run_at ]

\* f"task_{self._task_counter}"
AutoId(n) == "task_" \o ToString(n)

\* `if task.repeat`: a timedelta is true unless it is zero
Truthy(repeat) == IF IsNone(repeat) THEN FALSE ELSE Val(repeat) # 0

\* loop.py 97-103 / 127-133: name the task, build it, push it.  id is the
\* Optional task_id argument.
PushNew(run_at, repeat, id) ==
    /\ scheduled' = scheduled + 1
    /\ task_counter' = IF IsNone(id) THEN task_counter + 1 ELSE task_counter
    /\ tasks' = HeapPush(tasks, NewTask(run_at, repeat,
                                        IF IsNone(id) THEN AutoId(task_counter + 1)
                                        ELSE Val(id)))
    /\ cancelled' = cancelled \ {IF IsNone(id) THEN AutoId(task_counter + 1) ELSE Val(id)}
    /\ UNCHANGED << notLoop, running, stop_event, thread, wpc, wnow, wtask, mpc,
                    wlast >>

\* EventLoop.schedule_task
ScheduleTask(delay, repeat, id) ==
    PushNew(ClockNow(clock, wall) + delay, repeat, id)

\* EventLoop.schedule_at
ScheduleAt(run_at, repeat, id) ==
    PushNew(run_at, repeat, id)

\* EventLoop.schedule_interval
ScheduleInterval(interval, id, run_immediately) ==
    ScheduleTask(IF run_immediately THEN 0 ELSE interval, Some(interval), id)

\* The first position of the list whose task carries the id, 0 if none
FirstWithId(h, id) ==
    IF \E i \in 1..Len(h) : h[i].task_id = Some(id)
    THEN CHOOSE i \in 1..Len(h) :
            /\ h[i].task_id = Some(id)
            /\ \A j \in 1..(i - 1) : h[j].task_id # Some(id)
    ELSE 0

\* What cancel_task(id) returns
CancelResult(h, id) == FirstWithId(h, id) # 0

\* EventLoop.cancel_task: the first task found with the id gets task_id = None
CancelTask(id) ==
    /\ tasks' = IF CancelResult(tasks, id)
                THEN [tasks EXCEPT ![FirstWithId(tasks, id)].task_id = None]
                ELSE tasks
    /\ cancelled' = IF CancelResult(tasks, id) THEN cancelled \cup {id} ELSE cancelled
    /\ UNCHANGED << notLoop, running, stop_event, thread, task_counter, wpc, wnow,
                    wtask, mpc, scheduled, wlast >>

\* A thread slot no start() has used yet, 0 if there is none
NextWorker ==
    IF \E w \in 1..MaxWorkers : wpc[w] = "unborn"
    THEN CHOOSE w \in 1..MaxWorkers :
            wpc[w] = "unborn" /\ \A v \in 1..(w - 1) : wpc[v] # "unborn"
    ELSE 0

\* EventLoop.start: a no-op when _running, else a new worker thread
Start ==
    /\ mpc = "idle"
    /\ ~running
    /\ NextWorker # 0
    /\ running' = TRUE
    /\ stop_event' = FALSE
    /\ thread' = NextWorker
    /\ wpc' = [wpc EXCEPT ![NextWorker] = "check"]
    /\ UNCHANGED << notLoop, tasks, task_counter, wnow, wtask, mpc, scheduled,
                    cancelled, wlast >>

\* EventLoop.stop, loop.py 194-199: a no-op unless _running, else signal
StopSignal ==
    /\ mpc = "idle"
    /\ running
    /\ running' = FALSE
    /\ stop_event' = TRUE
    /\ mpc' = "join"
    /\ UNCHANGED << notLoop, tasks, thread, task_counter, wpc, wnow, wtask,
                    scheduled, cancelled, wlast >>

\* EventLoop.stop, loop.py 201-205: join(timeout) returns because the worker
\* has ended or because the timeout has passed (timed_out); then forget it
StopJoin(timed_out) ==
    /\ mpc = "join"
    /\ IF thread = 0 THEN ~timed_out
       ELSE (wpc[thread] = "dead") = ~timed_out
    /\ thread' = 0
    /\ mpc' = "idle"
    /\ UNCHANGED << notLoop, tasks, running, stop_event, task_counter, wpc, wnow,
                    wtask, scheduled, cancelled, wlast >>

\* _run_loop, loop.py 209-212: the loop condition, then `now = self.clock.now()`
WorkerCheck(w) ==
    /\ wpc[w] = "check"
    /\ IF running /\ ~stop_event
       THEN /\ wnow' = [wnow EXCEPT ![w] = ClockNow(clock, wall)]
            /\ wpc' = [wpc EXCEPT ![w] = "drain"]
       ELSE /\ wpc' = [wpc EXCEPT ![w] = "dead"]
            /\ wnow' = wnow
    /\ UNCHANGED << notLoop, tasks, running, stop_event, thread, task_counter, wtask,
                    mpc, scheduled, cancelled, wlast >>

\* The observer of the pops after one more pop
Popped(l, run_at) == IF Len(l) < 2 THEN Append(l, run_at) ELSE << l[2], run_at >>

\* Whether the inner loop's condition holds (loop.py 214)
HeadDue(h, now) == IF Len(h) = 0 THEN FALSE ELSE h[1].run_at <= now

\* _run_loop, loop.py 214-223: pop the head while it is due; a cancelled task
\* is dropped, any other task's callback is started.  When the inner loop
\* ends, `now` is not read again before line 212 assigns it: it is cleared.
WorkerDrain(w) ==
    /\ wpc[w] = "drain"
    /\ IF HeadDue(tasks, wnow[w])
       THEN /\ tasks' = HeapRest(tasks)
            /\ IF IsNone(HeapTop(tasks).task_id)
               THEN UNCHANGED << wpc, wtask >>
               ELSE /\ wtask' = [wtask EXCEPT ![w] = Some(HeapTop(tasks))]
                    /\ wpc' = [wpc EXCEPT ![w] = "callback"]
            /\ wnow' = wnow
            /\ wlast' = [wlast EXCEPT ![w] = Popped(@, HeapTop(tasks).run_at)]
       ELSE /\ wpc' = [wpc EXCEPT ![w] = "sleep"]
            /\ wnow' = [wnow EXCEPT ![w] = 0]
            /\ wlast' = [wlast EXCEPT ![w] = << >>]
            /\ UNCHANGED << tasks, wtask >>
    /\ UNCHANGED << notLoop, running, stop_event, thread, task_counter, mpc,
                    scheduled, cancelled >>

\* _run_loop, loop.py 214, for a worker that other threads run beside: the
\* inner loop's condition alone
DrainCheck(w) ==
    /\ wpc[w] = "drain"
    /\ IF HeadDue(tasks, wnow[w])
       THEN /\ wpc' = [wpc EXCEPT ![w] = "pop"]
            /\ UNCHANGED << wnow, wlast >>
       ELSE /\ wpc' = [wpc EXCEPT ![w] = "sleep"]
            /\ wnow' = [wnow EXCEPT ![w] = 0]
            /\ wlast' = [wlast EXCEPT ![w] = << >>]
    /\ UNCHANGED << notLoop, tasks, running, stop_event, thread, task_counter, wtask,
                    mpc, scheduled, cancelled >>

\* _run_loop, loop.py 215-223, after the condition held: heappop of what the
\* queue holds by now.  On an empty queue heappop raises IndexError, which
\* line 244 catches: the worker waits and starts its next iteration.
DrainPop(w) ==
    /\ wpc[w] = "pop"
    /\ IF Len(tasks) = 0
       THEN /\ wpc' = [wpc EXCEPT ![w] = "wait"]
            /\ wnow' = [wnow EXCEPT ![w] = 0]
            /\ wlast' = [wlast EXCEPT ![w] = << >>]
            /\ UNCHANGED << tasks, wtask >>
       ELSE /\ tasks' = HeapRest(tasks)
            /\ IF IsNone(HeapTop(tasks).task_id)
               THEN /\ wpc' = [wpc EXCEPT ![w] = "drain"]
                    /\ wtask' = wtask
               ELSE /\ wtask' = [wtask EXCEPT ![w] = Some(HeapTop(tasks))]
                    /\ wpc' = [wpc EXCEPT ![w] = "callback"]
            /\ wnow' = wnow
            /\ wlast' = [wlast EXCEPT ![w] = Popped(@, HeapTop(tasks).run_at)]
    /\ UNCHANGED << notLoop, running, stop_event, thread, task_counter, mpc,
                    scheduled, cancelled >>

\* The task as it is pushed back: run_at = now + task.repeat.  The observer
\* moves on with a positive interval only.
Rescheduled(task, now) ==
    [ task EXCEPT !.run_at = now + Val(task.repeat),
                  !.due = IF Val(task.repeat) > 0 THEN @ + Val(task.repeat) ELSE @ ]

\* _run_loop, loop.py 223-231: the callback returns or raises; a task that
\* returned and repeats is pushed back, an exception is logged
WorkerCallback(w, raises) ==
    /\ wpc[w] = "callback"
    /\ tasks' = IF ~raises /\ Truthy(Val(wtask[w]).repeat)
                THEN HeapPush(tasks, Rescheduled(Val(wtask[w]), wnow[w]))
                ELSE tasks
    /\ wtask' = [wtask EXCEPT ![w] = None]
    /\ wpc' = [wpc EXCEPT ![w] = "drain"]
    /\ UNCHANGED << notLoop, running, stop_event, thread, task_counter, wnow, mpc,
                    scheduled, cancelled, wlast >>

\* Whether the worker blocks on the stop event (loop.py 234-242): always when
\* the queue is empty, else when wall_time_until gives a positive delay
Sleeps(h, c, w) ==
    IF Len(h) = 0 THEN TRUE
    ELSE IF IsNone(WallTimeUntil(c, w, h[1].run_at)) THEN FALSE
    ELSE Val(WallTimeUntil(c, w, h[1].run_at)).num > 0

\* _run_loop, loop.py 234-242
WorkerSleep(w) ==
    /\ wpc[w] = "sleep"
    /\ wpc' = [wpc EXCEPT ![w] = IF Sleeps(tasks, clock, wall) THEN "wait" ELSE "check"]
    /\ UNCHANGED << notLoop, tasks, running, stop_event, thread, task_counter, wnow,
                    wtask, mpc, scheduled, cancelled, wlast >>

\* self._stop_event.wait(...) returns: the event is set or the timeout (at
\* most one second) has passed
WorkerWake(w) ==
    /\ wpc[w] = "wait"
    /\ wpc' = [wpc EXCEPT ![w] = "check"]
    /\ UNCHANGED << notLoop, tasks, running, stop_event, thread, task_counter, wnow,
                    wtask, mpc, scheduled, cancelled, wlast >>

\* No schedule_task call is running
IdleCall ==
    [ pc |-> "idle", run_at |-> 0, repeat |-> None, task_id |-> None, auto |-> FALSE,
      reg |-> 0 ]

\* EventLoop.schedule_task(delay, callback, repeat=repeat, task_id=id), step
\* by step as the interpreter runs it when other threads run between the
\* steps.  loop.py 96-97: run_at is computed and task_id is tested.
ScheduleTaskEnter(t, delay, repeat, id) ==
    /\ api[t].pc = "idle"
    /\ api' = [api EXCEPT ![t] =
                  [ pc |-> IF IsNone(id) THEN "load" ELSE "push",
                    run_at |-> ClockNow(clock, wall) + delay, repeat |-> repeat,
                    task_id |-> id, auto |-> IsNone(id), reg |-> 0 ]]
    /\ scheduled' = scheduled + 1
    /\ UNCHANGED << notCall, tasks, running, stop_event, thread, task_counter, wpc,
                    wnow, wtask, mpc, cancelled, wlast >>

\* loop.py 98, self._task_counter += 1: the attribute is read
CounterLoad(t) ==
    /\ api[t].pc = "load"
    /\ api' = [api EXCEPT ![t].reg = task_counter, ![t].pc = "store"]
    /\ UNCHANGED << notCall, loopVars >>

\* loop.py 98, self._task_counter += 1: the sum is stored
CounterStore(t) ==
    /\ api[t].pc = "store"
    /\ task_counter' = api[t].reg + 1
    /\ api' = [api EXCEPT ![t].pc = "name"]
    /\ UNCHANGED << notCall, tasks, running, stop_event, thread, wpc, wnow, wtask,
                    mpc, scheduled, cancelled, wlast >>

\* loop.py 99, task_id = f"task_{self._task_counter}": the attribute is read
\* again
NameTask(t) ==
    /\ api[t].pc = "name"
    /\ api' = [api EXCEPT ![t].task_id = Some(AutoId(task_counter)), ![t].pc = "push"]
    /\ UNCHANGED << notCall, loopVars >>

\* loop.py 101-102: the task is built and pushed
PushTask(t) ==
    /\ api[t].pc = "push"
    /\ tasks' = HeapPush(tasks, NewTask(api[t].run_at, api[t].repeat,
                                        Val(api[t].task_id)))
    /\ cancelled' = cancelled \ {Val(api[t].task_id)}
    /\ api' = [api EXCEPT ![t].pc = "done"]
    /\ UNCHANGED << notCall, running, stop_event, thread, task_counter, wpc, wnow,
                    wtask, mpc, scheduled, wlast >>

\* loop.py 103: the caller has the task id
ScheduleTaskReturn(t) ==
    /\ api[t].pc = "done"
    /\ api' = [api EXCEPT ![t] = IdleCall]
    /\ UNCHANGED << notCall, loopVars >>

\* EventLoop.__init__
LoopInit ==
    /\ api = [t \in Threads |-> IdleCall]
    /\ tasks = << >>
    /\ running = FALSE
    /\ stop_event = FALSE
    /\ thread = 0
    /\ task_counter = 0
    /\ wpc = [w \in 1..MaxWorkers |-> "unborn"]
    /\ wnow = [w \in 1..MaxWorkers |-> 0]
    /\ wtask = [w \in 1..MaxWorkers |-> None]
    /\ mpc = "idle"
    /\ scheduled = 0
    /\ cancelled = {}
    /\ wlast = [w \in 1..MaxWorkers |-> << >>]

\* ------------------------------------------------------------- dicts as values
\* A dict's content is a set of <<key, value>> pairs with one pair per key
Keys(d) == { p[1] : p \in d }
HasKey(d, k) == \E p \in d : p[1] = k
Get(d, k) == (CHOOSE p \in d : p[1] = k)[2]
Put(d, k, v) == { p \in d : p[1] # k } \cup { <<k, v>> }
\* dict.update(delta)
Update(d, delta) == { p \in d : ~HasKey(delta, p[1]) } \cup delta

\* ------------------------------------------------------------- entity ids
\* An id cut at its dots, the dots kept: what str.startswith and str.split
\* look at
Parts(id) ==
    CASE id = "light.a"   -> << "light", ".", "a" >>
      [] id = "light.b"   -> << "light", ".", "b" >>
      [] id = "cover.a"   -> << "cover", ".", "a" >>
      [] id = "climate.a" -> << "climate", ".", "a" >>
      [] id = "light."    -> << "light", "." >>
      [] id = "light.a.b" -> << "light", ".", "a", ".", "b" >>
      [] id = "kitchen"   -> << "kitchen" >>
      [] id = "sensor.energy" -> << "sensor", ".", "energy" >>
      [] id = "sensor.power"  -> << "sensor", ".", "power" >>
      [] id = "switch.a"      -> << "switch", ".", "a" >>
      [] id = "binary_sensor.h_motion_kitchen" ->
            << "binary_sensor", ".", "h_motion_kitchen" >>
      [] id = "person.h"      -> << "person", ".", "h" >>

\* The name of an id, what follows its dot, cut before its underscores
NameParts(id) ==
    CASE id = "binary_sensor.h_motion_kitchen" -> << "h", "_motion", "_kitchen" >>
      [] OTHER -> IF Len(Parts(id)) >= 3 THEN << Parts(id)[3] >> ELSE << >>

\* <domain>.<name>: exactly one dot, with something on both sides of it
WellFormed(id) ==
    /\ Len(Parts(id)) = 3
    /\ Parts(id)[1] # "." /\ Parts(id)[2] = "." /\ Parts(id)[3] # "."

\* base.py 47: entity_id.startswith(f"{self.domain}.")
StartsWithDomain(id, domain) ==
    Len(Parts(id)) >= 2 /\ Parts(id)[1] = domain /\ Parts(id)[2] = "."

\* ------------------------------------------------------------- the engines
\* The domains whose engine a ServiceRegistry has been given (register_engine)
Engines == EngineDomains

\* A numeric state, str(x) of a float x, kept as the number the string
\* shows, counted in units of its last digit
Num(x) == << "num", x >>

\* float(state.state) raises ValueError on a string that is no number
IsNumeric(s) == s[1] = "num"
FloatOf(s) == s[2]

\* round() of the fraction n / d, d > 0: to the nearest integer, a tie to
\* the even one
RoundDiv(n, d) ==
    LET q == n \div d
        r == n % d
    IN  IF 2 * r < d THEN q
        ELSE IF 2 * r > d THEN q + 1
        ELSE IF q % 2 = 0 THEN q ELSE q + 1

\* get_initial_state with no config, or the config noted.  Of the attributes that no handler
\* reads (friendly_name, device_class, supported_features, the mode lists,
\* ...) supported_features stands for all; temperatures are in tenths of a
\* degree.
InitialState(domain) ==
    CASE domain = "light" ->
            [ state |-> "off",
              attributes |-> { <<"brightness", 255>>, <<"supported_features", 1>> } ]
      [] domain = "cover" ->
            [ state |-> "closed",
              attributes |-> { <<"current_position", 0>>, <<"supported_features", 143>>,
                               <<"current_tilt_position", 0>> } ]
      [] domain = "climate" ->
            [ state |-> "off",
              attributes |-> { <<"supported_features", 25>>,
                               <<"hvac_modes", << "off", "heat", "cool", "auto" >> >>,
                               <<"current_temperature", 200>>, <<"temperature", 210>>,
                               <<"min_temp", 100>>, <<"max_temp", 350>> } ]
      [] domain = "sensor" ->      \* config {device_class: energy, power_sensor: ...}
            [ state |-> Num(0),
              attributes |-> { <<"device_class", "energy">>,
                               <<"state_class", "total_increasing">> } ]
      [] domain = "switch" ->      \* config {power_monitoring: True}
            [ state |-> "off",
              attributes |-> { <<"current_power_w", 0>> } ]

\* get_initial_state(entity_id, config): climate.py 36 takes the entity's
\* hvac_modes from the config when the config has the key
InitialStateWith(domain, config) ==
    IF domain = "climate" /\ HasKey(config, "hvac_modes")
    THEN [ InitialState(domain) EXCEPT
             !.attributes = Put(@, "hvac_modes", Get(config, "hvac_modes")) ]
    ELSE InitialState(domain)

\* hasattr(self, f"_service_{service}")
HasServiceHandler(domain, service) ==
    CASE domain = "light"   -> service \in { "turn_on", "turn_off", "toggle" }
      [] domain = "cover"   -> service \in { "open_cover", "close_cover", "stop_cover",
                                             "set_cover_position",
                                             "set_cover_tilt_position" }
      [] domain = "climate" -> service \in { "set_temperature", "set_hvac_mode",
                                             "set_preset_mode", "set_fan_mode",
                                             "set_humidity" }
      [] domain = "switch"  -> service \in { "turn_on", "turn_off", "toggle" }
      [] OTHER -> FALSE

\* What a handler or a tick does: it calls _update_state(state, attributes),
\* returns without writing, or raises
WriteOut(s, a) == [ kind |-> "write", state |-> s, attributes |-> a ]
SkipOut == [ kind |-> "skip", state |-> "", attributes |-> {} ]
RaiseOut == [ kind |-> "raise", state |-> "", attributes |-> {} ]

Min(a, b) == IF a < b THEN a ELSE b
Max(a, b) == IF a > b THEN a ELSE b

\* A turn_on that sets the brightness to the maximum whatever data says
LightTurnOnAlwaysMax(cur, data) ==
    IF IsNone(cur) THEN SkipOut
    ELSE WriteOut("on", Put(Val(cur).attributes, "brightness", 255))

\* LightBehavior._service_turn_on, light.py 109-138; data values are
\* Options, None being a JSON null, which int() raises on
LightTurnOn(cur, data) ==
    IF IsNone(cur) THEN SkipOut
    ELSE IF HasKey(data, "brightness") /\ IsNone(Get(data, "brightness")) THEN RaiseOut
    ELSE LET attrs0 == Val(cur).attributes
             attrs1 == IF HasKey(data, "brightness")
                       THEN Put(attrs0, "brightness",
                                Min(255, Max(0, Val(Get(data, "brightness")))))
                       ELSE attrs0
             attrs2 == IF HasKey(attrs1, "brightness") /\ ~HasKey(data, "brightness")
                       THEN Put(attrs1, "brightness", 255)
                       ELSE attrs1
         IN  WriteOut("on", attrs2)

\* LightBehavior._service_turn_off, light.py 140-144
LightTurnOff(cur, data) ==
    IF IsNone(cur) THEN SkipOut ELSE WriteOut("off", Val(cur).attributes)

\* LightBehavior._service_toggle, light.py 146-155
LightToggle(cur, data) ==
    IF IsNone(cur) THEN SkipOut
    ELSE IF Val(cur).state = "on" THEN LightTurnOff(cur, data)
    ELSE LightTurnOn(cur, data)

\* CoverBehavior._set_position, cover.py 80-103: line 93 stores the new
\* position in attrs before line 101 compares the new position with
\* attrs.get("current_position", 0)
SetPosition(cur, position) ==
    LET p == Max(0, Min(100, position))
    IN  IF IsNone(cur) THEN SkipOut
        ELSE LET attrs == Put(Val(cur).attributes, "current_position", p)
                 before == IF HasKey(attrs, "current_position")
                           THEN Get(attrs, "current_position") ELSE 0
                 new_state == IF p = 0 THEN "closed"
                              ELSE IF p = 100 THEN "open"
                              ELSE IF p > before THEN "opening" ELSE "closing"
             IN  WriteOut(new_state, attrs)

\* CoverBehavior._service_set_cover_position, cover.py 120-124
CoverSetCoverPosition(cur, data) ==
    LET position == IF HasKey(data, "position") THEN Get(data, "position") ELSE None
    IN  IF IsNone(position) THEN SkipOut ELSE SetPosition(cur, Val(position))

\* ClimateBehavior._service_set_hvac_mode, climate.py 161-169
ClimateSetHvacMode(cur, data) ==
    IF IsNone(cur) THEN SkipOut
    ELSE LET hvac_mode == IF HasKey(data, "hvac_mode") THEN Get(data, "hvac_mode")
                          ELSE None
             modes == IF HasKey(Val(cur).attributes, "hvac_modes")
                      THEN Get(Val(cur).attributes, "hvac_modes") ELSE << >>
         IN  IF ~IsNone(hvac_mode) /\ InList(modes, Val(hvac_mode))
             THEN WriteOut(Val(hvac_mode), Val(cur).attributes)
             ELSE SkipOut

\* ClimateBehavior._service_set_temperature, climate.py 140-159; float(None)
\* and a missing min_temp, max_temp or hvac_modes key raise
ClimateSetTemperature(cur, data) ==
    IF IsNone(cur) THEN SkipOut
    ELSE LET attrs == Val(cur).attributes
             sets == HasKey(data, "temperature")
             modes == HasKey(data, "hvac_mode")
         IN  IF sets /\ ( \/ IsNone(Get(data, "temperature"))
                          \/ ~HasKey(attrs, "min_temp")
                          \/ ~HasKey(attrs, "max_temp") )
             THEN RaiseOut
             ELSE IF modes /\ ~HasKey(attrs, "hvac_modes") THEN RaiseOut
             ELSE LET attrs2 == IF sets
                                THEN Put(attrs, "temperature",
                                         Max(Get(attrs, "min_temp"),
                                             Min(Get(attrs, "max_temp"),
                                                 Val(Get(data, "temperature")))))
                                ELSE attrs
                      hvac_mode == IF modes THEN Get(data, "hvac_mode") ELSE None
                      new_mode == IF /\ modes
                                     /\ ~IsNone(hvac_mode)
                                     /\ InList(Get(attrs, "hvac_modes"), Val(hvac_mode))
                                  THEN Val(hvac_mode)
                                  ELSE Val(cur).state
                  IN  WriteOut(new_mode, attrs2)

\* SwitchBehavior._service_turn_on, switch.py 63-67
SwitchTurnOn(cur, data) ==
    IF IsNone(cur) THEN SkipOut ELSE WriteOut("on", Val(cur).attributes)

\* SwitchBehavior._service_turn_off, switch.py 69-73
SwitchTurnOff(cur, data) ==
    IF IsNone(cur) THEN SkipOut ELSE WriteOut("off", Val(cur).attributes)

\* SwitchBehavior._service_toggle, switch.py 75-82
SwitchToggle(cur, data) ==
    IF IsNone(cur) THEN SkipOut
    ELSE WriteOut(IF Val(cur).state = "on" THEN "off" ELSE "on", Val(cur).attributes)

\* getattr(self, f"_service_{service}")(entity_id, data or {}) for the
\* handlers above; the other handlers are not called in this model
Handler(domain, service, cur, data) ==
    CASE domain = "light" /\ service = "turn_on"  -> LightTurnOn(cur, data)
      [] domain = "light" /\ service = "turn_off" -> LightTurnOff(cur, data)
      [] domain = "light" /\ service = "toggle"   -> LightToggle(cur, data)
      [] domain = "cover" /\ service = "open_cover"  -> SetPosition(cur, 100)
      [] domain = "cover" /\ service = "close_cover" -> SetPosition(cur, 0)
      [] domain = "cover" /\ service = "set_cover_position" ->
            CoverSetCoverPosition(cur, data)
      [] domain = "climate" /\ service = "set_hvac_mode" -> ClimateSetHvacMode(cur, data)
      [] domain = "climate" /\ service = "set_temperature" ->
            ClimateSetTemperature(cur, data)
      [] domain = "switch" /\ service = "turn_on"  -> SwitchTurnOn(cur, data)
      [] domain = "switch" /\ service = "turn_off" -> SwitchTurnOff(cur, data)
      [] domain = "switch" /\ service = "toggle"   -> SwitchToggle(cur, data)

\* round(x, 1) of x in thousandths of a degree, to tenths (x is never
\* half-way between two tenths here)
RoundTenths(x) == (x + 50) \div 100

\* ClimateBehavior._simulate_hvac for one entity, climate.py 68-138, with no
\* weather driver (outdoor_temp = 15.0); noise is what random.gauss(0, 0.05)
\* returned, in thousandths of a degree.  The cooling branch, 103-111, is
\* included; the humidity branch needs an attribute a default entity has not.
SimulateHvacOut(cur, noise) ==
    LET attrs == Val(cur).attributes
        current_temp == IF HasKey(attrs, "current_temperature")
                        THEN Get(attrs, "current_temperature") ELSE 200
        target_temp == IF HasKey(attrs, "temperature") THEN Get(attrs, "temperature")
                       ELSE 210
        hvac_mode == Val(cur).state
        thermal_drift == (150 - current_temp) * 5         \* (15.0 - t) * 0.05
        heats == hvac_mode \in {"heat", "heat_cool", "auto"}
        heat_effect == IF heats /\ current_temp < target_temp - 5 THEN 300 ELSE 0
        heat_mode == IF heats /\ current_temp < target_temp - 5 THEN "heat"
                     ELSE IF heats /\ hvac_mode = "heat" /\ current_temp >= target_temp
                     THEN "off"
                     ELSE hvac_mode
        cools == hvac_mode \in {"cool", "heat_cool", "auto"}
        hvac_effect == IF cools /\ current_temp > target_temp + 5 THEN -300
                       ELSE IF cools /\ hvac_mode = "cool" /\ current_temp <= target_temp
                       THEN 0
                       ELSE heat_effect
        new_hvac_mode == IF cools /\ current_temp > target_temp + 5 THEN "cool"
                         ELSE IF cools /\ hvac_mode = "cool"
                                 /\ current_temp <= target_temp
                         THEN "off"
                         ELSE heat_mode
        new_temp == RoundTenths(current_temp * 100 + thermal_drift + hvac_effect + noise)
    IN  IF IsNone(cur) THEN SkipOut
        ELSE WriteOut(new_hvac_mode, Put(attrs, "current_temperature", new_temp))

\* BehaviorEngine._update_state, base.py 156-164: the attributes set_state
\* is called with
UpdateMerged(cur, out) ==
    IF IsNone(cur) THEN out.attributes
    ELSE Update(Val(cur).attributes, out.attributes)

\* ServiceRegistry._register_default_services(domain), services.py 31-105:
\* the names get_services_schema lists for the domain of a registered engine
DefaultServices(domain) ==
    ( IF domain \in { "light", "switch", "climate", "fan", "cover", "lock",
                      "media_player" }
      THEN { "turn_on", "turn_off", "toggle" } ELSE { } )
    \cup
    ( IF domain = "climate"
      THEN { "set_temperature", "set_hvac_mode", "set_preset_mode", "set_fan_mode",
             "set_humidity" }
      ELSE IF domain = "cover"
      THEN { "open_cover", "close_cover", "stop_cover", "set_cover_position" }
      ELSE { } )

\* The first argument of call_service: None, one id or a list of ids
NoTarget == [ kind |-> "none", ids |-> << >> ]
OneTarget(id) == [ kind |-> "one", ids |-> << id >> ]
ListTarget(ids) == [ kind |-> "list", ids |-> ids ]

IdleEng ==
    [ pc |-> "idle", domain |-> "", service |-> "", tgt |-> NoTarget, targets |-> << >>,
      is_list |-> FALSE, data |-> {}, results |-> << >>, invoked |-> << >>,
      ret |-> None, base |-> None, delta |-> {}, seq0 |-> 0 ]

\* BehaviorEngine.__init__ of every engine; no call_service call is running
EngineInit ==
    /\ entities = [d \in EngineDomains |-> {}]
    /\ eng = [t \in Threads |-> IdleEng]

\* BehaviorEngine.register_entity(id) of the engine of `domain`, with no
\* config, base.py 47-62, up to the call of set_state
RegisterEntity(t, domain, id) ==
    /\ pc[t] = "idle"
    /\ eng[t].pc = "idle"
    /\ IF ~StartsWithDomain(id, domain)
       THEN UNCHANGED << storeVars, entities >>
       ELSE /\ entities' = [entities EXCEPT ![domain] = @ \cup {id}]
            /\ IF IsNone(GetState(id))
               THEN EnterSetState(t, id, InitialState(domain).state, MaxDicts + 1,
                                  InitialState(domain).attributes, 0, EmptyDict, FALSE)
               ELSE UNCHANGED storeVars
    /\ UNCHANGED << ambient, eng >>

\* f"{self.domain}_simulate_usage", f"{self.domain}_auto", f"{self.domain}_hvac"
StartTaskId(domain) ==
    CASE domain = "light"   -> "light_simulate_usage"
      [] domain = "cover"   -> "cover_auto"
      [] domain = "climate" -> "climate_hvac"
      [] domain = "sensor"  -> "sensor_power"
      [] domain = "switch"  -> "switch_power_monitoring"

\* A registry entry check that every id passes
OwnsAnything(domain, id) == TRUE

\* base.py 127: entity_id in self._entities
Owns(domain, id) == id \in entities[domain]

\* `not entity_id`: None and the empty list are falsy
Falsy(tgt) == tgt.kind = "none" \/ tgt.ids = << >>

\* all(results)
All(results) == \A i \in 1..Len(results) : results[i]

\* What the store's readers see, for every id
StoreViewAll == [e \in Ids |-> << GetState(e), GetHistory(e) >>]

\* ServiceRegistry.call_service(domain, service, tgt, data), services.py
\* 125-142, up to the first handle_service_call.  eng.base and eng.seq0
\* note what the store held when the call began.
CallService(t, domain, service, tgt, data) ==
    LET eff == IF ~Falsy(tgt) THEN tgt
               ELSE IF HasKey(data, "entity_id") /\ ~IsNone(Get(data, "entity_id"))
               THEN OneTarget(Val(Get(data, "entity_id")))
               ELSE NoTarget
        f0 == [ IdleEng EXCEPT !.domain = domain, !.service = service, !.tgt = tgt,
                               !.data = data,
                               !.base = Some(StoreViewAll), !.seq0 = Len(commitLog) ]
    IN  /\ pc[t] = "idle"
        /\ eng[t].pc = "idle"
        /\ eng' = [eng EXCEPT ![t] =
                      IF domain \notin Engines \/ Falsy(eff)
                      THEN [ f0 EXCEPT !.pc = "done", !.ret = Some(FALSE) ]
                      ELSE [ f0 EXCEPT !.pc = "dispatch", !.targets = eff.ids,
                                       !.is_list = (eff.kind = "list") ]]
        /\ UNCHANGED << notEngine, entities >>

\* The frame after handle_service_call has returned `result` for the first
\* of the remaining targets: services.py 144-149
Finish(f, result) ==
    LET rs == Append(f.results, result)
    IN  IF Len(f.targets) > 1
        THEN [ f EXCEPT !.pc = "dispatch", !.targets = Tail(@), !.results = rs ]
        ELSE [ f EXCEPT !.pc = "done", !.targets = << >>, !.results = rs,
                        !.ret = Some(IF f.is_list THEN All(rs) ELSE result) ]

\* BehaviorEngine.handle_service_call for the next target, base.py 127-141,
\* with the handler and _update_state up to the call of set_state; a call
\* that does not write has returned at the end of this step
HandleServiceCall(t) ==
    LET f == eng[t]
        eid == Head(f.targets)
        cur == GetState(eid)
        out == Handler(f.domain, f.service, cur, f.data)
        g == [ f EXCEPT !.invoked = Append(@, eid) ]
    IN  /\ f.pc = "dispatch"
        /\ pc[t] = "idle"
        /\ IF ~Owns(f.domain, eid) \/ ~HasServiceHandler(f.domain, f.service)
           THEN /\ eng' = [eng EXCEPT ![t] = Finish(g, FALSE)]
                /\ UNCHANGED storeVars
           ELSE IF out.kind = "write"
           THEN /\ eng' = [eng EXCEPT ![t] = [ g EXCEPT !.pc = "written",
                                                        !.delta = out.attributes ]]
                /\ EnterSetState(t, eid, out.state, MaxDicts + 1, UpdateMerged(cur, out),
                                 0, EmptyDict, FALSE)
           ELSE /\ eng' = [eng EXCEPT ![t] = Finish(g, out.kind = "skip")]
                /\ UNCHANGED storeVars
        /\ UNCHANGED << ambient, entities >>

\* base.py 134-135: the handler's set_state has returned, so has the handler
HandlerReturn(t) ==
    /\ eng[t].pc = "written"
    /\ pc[t] = "idle"
    /\ eng' = [eng EXCEPT ![t] = Finish(@, TRUE)]
    /\ UNCHANGED << notEngine, entities >>

\* The caller of call_service has its outcome
ServiceReturn(t) ==
    /\ eng[t].pc = "done"
    /\ eng' = [eng EXCEPT ![t] = IdleEng]
    /\ UNCHANGED << notEngine, entities >>

\* ClimateBehavior._simulate_hvac for entity e, up to the call of set_state
SimulateHvac(t, e, noise) ==
    LET cur == GetState(e)
        out == SimulateHvacOut(cur, noise)
    IN  /\ pc[t] = "idle"
        /\ eng[t].pc = "idle"
        /\ e \in entities["climate"]
        /\ ~IsNone(cur)
        /\ eng' = [eng EXCEPT ![t] = [ IdleEng EXCEPT !.pc = "tick", !.domain = "climate",
                                                      !.delta = out.attributes,
                                                      !.base = Some(StoreViewAll),
                                                      !.seq0 = Len(commitLog) ]]
        /\ EnterSetState(t, e, out.state, MaxDicts + 1, UpdateMerged(cur, out),
                         0, EmptyDict, FALSE)
        /\ UNCHANGED << ambient, entities >>

\* SensorBehavior._update_power_sensors for an energy sensor, sensor.py
\* 173-176, 197-215, 243.  The energy state shows thousandths of a kWh, the
\* power state tenths of a watt, so power / 360000.0 kWh is
\* power_tenths / 3600 thousandths.
EnergyOut(cur, power_state) ==
    LET current_value == IF IsNumeric(Val(cur).state) THEN FloatOf(Val(cur).state)
                         ELSE 0
        adds == ~IsNone(power_state) /\ IsNumeric(Val(power_state).state)
        new_value == IF adds
                     THEN RoundDiv(3600 * current_value
                                      + FloatOf(Val(power_state).state), 3600)
                     ELSE current_value
    IN  WriteOut(Num(new_value), Val(cur).attributes)

\* config["power_sensor"] of the energy sensor
PowerSensorOf(e) == "sensor.power"

\* SensorBehavior._update_power_sensors for the energy sensor e, up to the
\* call of set_state
UpdatePowerSensors(t, e) ==
    LET cur == GetState(e)
        out == EnergyOut(cur, GetState(PowerSensorOf(e)))
    IN  /\ pc[t] = "idle"
        /\ eng[t].pc = "idle"
        /\ e \in entities["sensor"]
        /\ ~IsNone(cur)
        /\ eng' = [eng EXCEPT ![t] = [ IdleEng EXCEPT !.pc = "tick", !.domain = "sensor",
                                                      !.delta = out.attributes,
                                                      !.base = Some(StoreViewAll),
                                                      !.seq0 = Len(commitLog) ]]
        /\ EnterSetState(t, e, out.state, MaxDicts + 1, UpdateMerged(cur, out),
                         0, EmptyDict, FALSE)
        /\ UNCHANGED << ambient, entities >>

\* What random.uniform returned in a power-monitoring tick: the low or the
\* high end of its range
Uniform == { 0, 1 }

\* SwitchBehavior._update_power_monitoring for one entity, switch.py 44-61,
\* with the default rated_power of 10.0; powers are in tenths of a watt.
\* The state passed to _update_state is the one read at line 45.
PowerMonitoringOut(cur, u) ==
    LET attrs == Val(cur).attributes
        power == IF Val(cur).state = "on" THEN 90 + 20 * u ELSE 5 * u
    IN  IF ~HasKey(attrs, "current_power_w") THEN SkipOut
        ELSE WriteOut(Val(cur).state, Put(attrs, "current_power_w", power))

\* SwitchBehavior._update_power_monitoring for entity e, up to the call of
\* set_state
UpdatePowerMonitoring(t, e, u) ==
    LET cur == GetState(e)
        out == PowerMonitoringOut(cur, u)
    IN  /\ pc[t] = "idle"
        /\ eng[t].pc = "idle"
        /\ e \in entities["switch"]
        /\ ~IsNone(cur)
        /\ out.kind = "write"
        /\ eng' = [eng EXCEPT ![t] = [ IdleEng EXCEPT !.pc = "tick", !.domain = "switch",
                                                      !.delta = out.attributes,
                                                      !.base = Some(StoreViewAll),
                                                      !.seq0 = Len(commitLog) ]]
        /\ EnterSetState(t, e, out.state, MaxDicts + 1, UpdateMerged(cur, out),
                         0, EmptyDict, FALSE)
        /\ UNCHANGED << ambient, entities >>

\* climate.py 138, sensor.py 243, switch.py 61: _update_state has returned
TickReturn(t) ==
    /\ eng[t].pc = "tick"
    /\ pc[t] = "idle"
    /\ eng' = [eng EXCEPT ![t] = IdleEng]
    /\ UNCHANGED << notEngine, entities >>

\* BehaviorEngine.register_entity(id, config) of the engine of `domain`,
\* base.py 40-62, up to the call of set_state
RegisterEntityWith(t, domain, id, config) ==
    /\ pc[t] = "idle"
    /\ eng[t].pc = "idle"
    /\ IF ~StartsWithDomain(id, domain)
       THEN UNCHANGED << storeVars, entities >>
       ELSE /\ entities' = [entities EXCEPT ![domain] = @ \cup {id}]
            /\ IF IsNone(GetState(id))
               THEN EnterSetState(t, id, InitialStateWith(domain, config).state,
                                  MaxDicts + 1,
                                  InitialStateWith(domain, config).attributes,
                                  0, EmptyDict, FALSE)
               ELSE UNCHANGED storeVars
    /\ UNCHANGED << ambient, eng >>

\* sample_profile_counts(profile, cfg, rng), model/profiles.py 12-21, for
\* the two values rng.lognormal_by_median_p90 returns.  A sample is positive
\* and int(max(50, x)) is max(50, int(x)), so a sample is given by its
\* integer part; ents / max(1, devs) is compared as a fraction.
SampleProfileCounts(raw_ents, raw_devs) ==
    LET ents == Max(50, raw_ents)
        devs == Max(10, raw_devs)
        devs2 == IF ents < 4 * Max(1, devs) THEN Max(1, ents \div 4)
                 ELSE IF ents > 7 * Max(1, devs) THEN Max(1, ents \div 7)
                 ELSE devs
    IN  [ total_entities |-> ents, total_devices |-> devs2 ]

\* No sample_profile_counts call has been made
NoCounts == [ raw_ents |-> 0, raw_devs |-> 0, out |-> None ]

\* OccupancySimulator.__init__, occupancy.py 38-41.  active_areas is kept as
\* the set of the list's members; todo is what the loop of a propagation
\* step has still to visit; vacation is an observer: the argument of the
\* last set_vacation_mode call.
OccInit ==
    [ is_home |-> TRUE, is_sleeping |-> FALSE, active_areas |-> { }, pc |-> "idle",
      todo |-> << >>, vacation |-> FALSE ]

HomeInit ==
    /\ occ = OccInit
    /\ counts = NoCounts

\* The caller of sample_profile_counts gets its result
Sample ==
    /\ IsNone(counts.out)
    /\ counts' = [counts EXCEPT
                    !.out = Some(SampleProfileCounts(counts.raw_ents, counts.raw_devs))]
    /\ UNCHANGED << notHome, occ >>

\* The simulator's home_id, and the ids of the home's entities in the order
\* in which the store's dict holds them
HomeId == "h"
HomeIds == << "binary_sensor.h_motion_kitchen", "person.h" >>

\* occupancy.py 150: entity_id.startswith(f"binary_sensor.{self.home_id}_motion")
IsMotionSensorOf(id, home_id) ==
    /\ StartsWithDomain(id, "binary_sensor")
    /\ Len(NameParts(id)) >= 2
    /\ NameParts(id)[1] = home_id /\ NameParts(id)[2] = "_motion"

\* occupancy.py 175: entity_id.startswith(f"person.{self.home_id}")
IsPersonOf(id, home_id) ==
    /\ StartsWithDomain(id, "person")
    /\ Len(NameParts(id)) >= 1
    /\ NameParts(id)[1] = home_id

\* The part of the day clock.now().time() falls in, cut at the times the
\* simulator compares with: night 22:30-6:30, early 6:30-8:00, morning
\* 8:00-9:00, midday 9:00-12:00, lunch 12:00-13:00, afternoon 13:00-17:00,
\* dusk 17:00-17:30, evening 17:30-20:00, late 20:00-22:30
Bands == { "night", "early", "morning", "midday", "lunch", "afternoon", "dusk",
           "evening", "late" }
\* occupancy.py 71: current_time >= sleep_time or current_time < wake_time
InSleepWindow(band) == band = "night"
\* occupancy.py 80: leave_home_time <= current_time < return_home_time
InWorkWindow(band) == band \in { "morning", "midday", "lunch", "afternoon", "dusk" }

\* OccupancySimulator._update_active_areas, occupancy.py 97-142, with the
\* default has_kids False and wfh_ratio 0.3.  rnd.bed: random.random() < 0.3
\* at line 109; rnd.pick: the area chosen at line 115; rnd.extra: the area
\* appended at line 142, None if none is.
ActiveAreas(band, rnd) ==
    ( CASE band \in { "early", "morning" } ->
              { "kitchen", "bathroom" } \cup (IF rnd.bed THEN { "bedroom" } ELSE { })
        [] band = "midday"    -> { rnd.pick }
        [] band = "lunch"     -> { "kitchen", "dining_room" }
        [] band = "afternoon" -> { "living_room" }
        [] band \in { "dusk", "evening" } -> { "kitchen", "living_room" }
        [] band = "late"      -> { "living_room", "bedroom", "bathroom" }
        [] OTHER -> { } )
    \cup (IF IsNone(rnd.extra) THEN { } ELSE { Val(rnd.extra) })

\* OccupancySimulator._update_occupancy, occupancy.py 65-91: the fields
\* after the three decisions.  wfh_day: random.random() < self.wfh_ratio
OccupancyAfter(o, band, is_weekday, is_wfh_day, rnd) ==
    LET o1 == IF InSleepWindow(band)
              THEN [ o EXCEPT !.is_sleeping = TRUE, !.active_areas = { "bedroom" } ]
              ELSE [ o EXCEPT !.is_sleeping = FALSE ]
        o2 == IF is_weekday /\ ~is_wfh_day
              THEN IF InWorkWindow(band)
                   THEN [ o1 EXCEPT !.is_home = FALSE, !.active_areas = { } ]
                   ELSE [ o1 EXCEPT !.is_home = TRUE ]
              ELSE [ o1 EXCEPT !.is_home = TRUE ]
    IN  IF o2.is_home /\ ~o2.is_sleeping
        THEN [ o2 EXCEPT !.active_areas = ActiveAreas(band, rnd) ]
        ELSE o2

\* get_all_states() filtered by a prefix test: the clones of the home's
\* stored motion sensors (motion) or persons (~motion)
Matching(motion) ==
    LET ids == SelectSeq(HomeIds,
                         LAMBDA id : /\ states[id] # 0
                                     /\ IF motion THEN IsMotionSensorOf(id, HomeId)
                                        ELSE IsPersonOf(id, HomeId))
    IN  [ i \in 1..Len(ids) |-> Clone(states[ids[i]]) ]

\* OccupancySimulator._update_occupancy up to line 94, and the
\* get_all_states call of _update_motion_sensors, line 147
UpdateOccupancy(t, band, is_weekday, is_wfh_day, rnd) ==
    /\ occ.pc = "idle"
    /\ pc[t] = "idle"
    /\ eng[t].pc = "idle"
    /\ occ' = [ OccupancyAfter(occ, band, is_weekday, is_wfh_day, rnd) EXCEPT
                  !.pc = "motion", !.todo = Matching(TRUE) ]
    /\ UNCHANGED << notHome, counts >>

\* One round of the loop of _update_motion_sensors, occupancy.py 149-167, up
\* to its set_state call; after the last round, the get_all_states call of
\* _update_person_entities, line 172.  lucky: random.random() < 0.1
UpdateMotionSensors(t, lucky) ==
    /\ occ.pc = "motion"
    /\ pc[t] = "idle"
    /\ IF occ.todo = << >>
       THEN /\ occ' = [ occ EXCEPT !.pc = "person", !.todo = Matching(FALSE) ]
            /\ UNCHANGED storeVars
       ELSE LET state == Head(occ.todo)
                area == IF HasKey(state.attributes, "area")
                        THEN Get(state.attributes, "area") ELSE "unknown"
                should_be_on == /\ occ.is_home
                                /\ ~occ.is_sleeping
                                /\ (area \in occ.active_areas \/ lucky)
                new_state == IF should_be_on THEN "on" ELSE "off"
            IN  /\ occ' = [ occ EXCEPT !.todo = Tail(@) ]
                /\ IF state.state # new_state
                   THEN EnterSetState(t, state.entity_id, new_state, MaxDicts + 1,
                                      state.attributes, 0, EmptyDict, FALSE)
                   ELSE UNCHANGED storeVars
    /\ UNCHANGED << wall, clockVars, loopVars, engineVars, counts, api >>

\* One round of the loop of _update_person_entities, occupancy.py 174-185,
\* up to its set_state call; after the last round the tick has returned
UpdatePersonEntities(t) ==
    /\ occ.pc = "person"
    /\ pc[t] = "idle"
    /\ IF occ.todo = << >>
       THEN /\ occ' = [ occ EXCEPT !.pc = "done" ]
            /\ UNCHANGED storeVars
       ELSE LET state == Head(occ.todo)
                new_state == IF occ.is_home THEN "home" ELSE "away"
                attrs == Put(state.attributes, "source", "device_tracker")
            IN  /\ occ' = [ occ EXCEPT !.todo = Tail(@) ]
                /\ IF new_state # state.state
                   THEN EnterSetState(t, state.entity_id, new_state, MaxDicts + 1,
                                      attrs, 0, EmptyDict, FALSE)
                   ELSE UNCHANGED storeVars
    /\ UNCHANGED << wall, clockVars, loopVars, engineVars, counts, api >>

\* The event loop has the tick's return
OccupancyReturn ==
    /\ occ.pc = "done"
    /\ occ' = [ occ EXCEPT !.pc = "idle" ]
    /\ UNCHANGED << notHome, counts >>

\* OccupancySimulator.set_vacation_mode(enabled), occupancy.py 187-198
SetVacationMode(enabled) ==
    /\ occ.pc = "idle"
    /\ occ' = IF enabled
              THEN [ occ EXCEPT !.is_home = FALSE, !.is_sleeping = FALSE,
                                !.active_areas = { }, !.vacation = TRUE ]
              ELSE [ occ EXCEPT !.is_home = TRUE, !.vacation = FALSE ]
    /\ UNCHANGED << notHome, counts >>

\* An engine's start(): light.py 53-57, cover.py 41-45, climate.py 59-63,
\* schedule_interval with the engine's fixed task id
EngineStart(domain) ==
    ScheduleInterval(MaxRepeat, Some(StartTaskId(domain)), FALSE)

\* ------------------------------------------------------------- specifications
\* StateManager.__init__(max_history = mh)
StoreInit(mh) ==
    /\ dicts = [r \in DictRefs |-> None]
    /\ recs = [r \in RecRefs |-> None]
    /\ states = [e \in Ids |-> 0]
    /\ history = [e \in Ids |-> << >>]
    /\ max_history = mh
    /\ listeners = << >>
    /\ lockOwner = 0
    /\ lockCount = 0
    /\ pc = [t \in Threads |-> "idle"]
    /\ frame = [t \in Threads |-> IdleFrame]
    /\ heldDicts = {}
    /\ heldRecs = {}
    /\ writes = 0
    /\ commitLog = << >>
    /\ received = [l \in ListenerIds |-> << >>]
    /\ regAt = [l \in ListenerIds |-> 0]
    /\ writeSim = [e \in Ids |-> None]

\* SimulationClock.__init__ with the default start_time (the wall time) and
\* any speed; StateManager.__init__ with any max_history
Init ==
    /\ wall = 0
    /\ clock \in { ClockInit(0, 0, s, FALSE) : s \in Speeds }
    /\ calls = << >>
    /\ \E mh \in 0..MaxHistory : StoreInit(mh)
    /\ LoopInit
    /\ EngineInit
    /\ HomeInit

\* One caller that writes one entity, passes attribute and context dicts and
\* drops what it gets back; one listener; wall time passes
Next ==
    \/ Tick
    \/ \E s \in StateValues, a \in {0, MaxDicts + 1}, c \in {0, MaxDicts + 1},
          f \in BOOLEAN :
          /\ writes < MaxWrites
          /\ CallSetState(1, "light.a", s, a, {<<"brightness", 1>>}, c, {<<"id", 1>>}, f)
    \/ Acquire(1)
    \/ Body(1)
    \/ \E raises \in BOOLEAN : Notify(1, raises)
    \/ Return(1, FALSE)
    \/ RemoveState(1, "light.a")
    \/ AddListener(1, 1)

Spec == Init /\ [][Next]_vars

\* One caller that keeps every reference: the dicts it passes (and may pass
\* again) and the records set_state returns, and writes through them
NextAlias ==
    \/ \E e \in Entities, a \in {0, MaxDicts + 1} \cup DictRefs, c \in {0, MaxDicts + 1} :
          /\ writes < MaxAliasWrites
          /\ CallSetState(1, e, "on", a, {<<"brightness", 1>>}, c, {<<"id", 1>>}, FALSE)
    \/ Acquire(1)
    \/ Body(1)
    \/ \E raises \in BOOLEAN : Notify(1, raises)
    \/ Return(1, TRUE)
    \/ \E d \in DictRefs, v \in AttrDicts : MutateDict(d, v)
    \/ \E r \in RecRefs, s \in StateValues : MutateRec(r, s)

SpecAlias == Init /\ [][NextAlias]_vars

\* Two threads that write both entities, listeners that come and go
NextConc ==
    \/ \E t \in Threads, e \in Entities, s \in StateValues :
          /\ writes < MaxWrites
          /\ CallSetState(t, e, s, 0, EmptyDict, 0, EmptyDict, FALSE)
    \/ \E t \in Threads : Acquire(t)
    \/ \E t \in Threads : Body(t)
    \/ \E t \in Threads, raises \in BOOLEAN : Notify(t, raises)
    \/ \E t \in Threads : Return(t, FALSE)
    \/ \E t \in Threads, l \in ListenerIds : AddListener(t, l)
    \/ \E t \in Threads, l \in ListenerIds : RemoveListener(t, l)

\* The simulator's construction (simulator.py 36-37, with max_history scaled
\* down): real-time clock, one StateManager
InitConc ==
    /\ wall = 0
    /\ clock = ClockInit(0, 0, 1, FALSE)
    /\ calls = << >>
    /\ StoreInit(MaxHistory)
    /\ LoopInit
    /\ EngineInit
    /\ HomeInit

SpecConc == InitConc /\ [][NextConc]_vars

\* One caller that writes one entity, with or without force_update, while
\* wall time passes; two listeners that come and go and may raise
InitWrite ==
    /\ wall = 0
    /\ clock = ClockInit(0, 0, 1, FALSE)
    /\ calls = << >>
    /\ StoreInit(MaxHistory)
    /\ LoopInit
    /\ EngineInit
    /\ HomeInit

NextWrite ==
    \/ Tick
    \/ \E s \in StateValues, f \in BOOLEAN :
          /\ writes < MaxWrites
          /\ CallSetState(1, "light.a", s, 0, EmptyDict, 0, EmptyDict, f)
    \/ Acquire(1)
    \/ Body(1)
    \/ \E raises \in BOOLEAN : Notify(1, raises)
    \/ Return(1, FALSE)
    \/ \E l \in ListenerIds : AddListener(1, l)
    \/ \E l \in ListenerIds : RemoveListener(1, l)

SpecWrite == InitWrite /\ [][NextWrite]_vars

\* The scheduler under API calls: tasks are scheduled and cancelled, the
\* loop is started and stopped, the clock is paused and resumed, wall time
\* passes
InitLoop ==
    /\ wall = 0
    /\ clock = ClockInit(0, 0, 1, FALSE)
    /\ calls = << >>
    /\ StoreInit(MaxHistory)
    /\ LoopInit
    /\ EngineInit
    /\ HomeInit

NextLoop ==
    \/ Tick
    \/ Pause /\ Unlogged
    \/ Resume /\ Unlogged
    \/ \E d \in 0..MaxDelay : scheduled < MaxTasks /\ ScheduleTask(d, None, None)
    \/ scheduled < MaxTasks /\ ScheduleAt(ClockNow(clock, wall) + MaxDelay, None, Some("a"))
    \/ \E b \in BOOLEAN :
          scheduled < MaxTasks /\ ScheduleInterval(MaxRepeat, Some("a"), b)
    \/ \E id \in {"a", AutoId(1)} : CancelTask(id)
    \/ Start
    \/ StopSignal
    \/ \E b \in BOOLEAN : StopJoin(b)
    \/ \E w \in 1..MaxWorkers : WorkerCheck(w)
    \/ \E w \in 1..MaxWorkers : WorkerDrain(w)
    \/ \E w \in 1..MaxWorkers, raises \in BOOLEAN : WorkerCallback(w, raises)
    \/ \E w \in 1..MaxWorkers : WorkerSleep(w)
    \/ \E w \in 1..MaxWorkers : WorkerWake(w)

SpecLoop == InitLoop /\ [][NextLoop]_vars

\* A simulator built paused (SimulationClock(paused=True)): tasks are
\* scheduled, the loop is started, wall time passes, and the clock is
\* resumed at some point and not paused again
InitPause ==
    /\ wall = 0
    /\ clock = ClockInit(0, 0, 1, TRUE)
    /\ calls = << >>
    /\ StoreInit(MaxHistory)
    /\ LoopInit
    /\ EngineInit
    /\ HomeInit

NextPause ==
    \/ Tick
    \/ Resume /\ Unlogged
    \/ \E d \in 0..MaxDelay : scheduled < MaxTasks /\ ScheduleTask(d, None, None)
    \/ Start
    \/ \E w \in 1..MaxWorkers : WorkerCheck(w)
    \/ \E w \in 1..MaxWorkers : WorkerDrain(w)
    \/ \E w \in 1..MaxWorkers, raises \in BOOLEAN : WorkerCallback(w, raises)
    \/ \E w \in 1..MaxWorkers : WorkerSleep(w)
    \/ \E w \in 1..MaxWorkers : WorkerWake(w)

SpecPause == InitPause /\ [][NextPause]_vars

\* The clock under its control endpoints: a clock built running or paused,
\* at the default speed, and a caller that logs what it calls while wall
\* time passes
InitClock ==
    /\ wall = 0
    /\ clock \in { ClockInit(0, 0, 1, p) : p \in BOOLEAN }
    /\ calls = << >>
    /\ StoreInit(MaxHistory)
    /\ LoopInit
    /\ EngineInit
    /\ HomeInit

NextClock ==
    \/ Tick
    \/ Pause /\ Logged("pause", 0, FALSE)
    \/ Resume /\ Logged("resume", 0, FALSE)
    \/ \E s \in SpeedArgs : SetSpeed(s) /\ Logged("set_speed", s, SetSpeedRaises(s))
    \/ \E t \in 0..MaxJump : SetTime(t) /\ Logged("set_time", t, FALSE)
    \/ \E d \in Deltas : Advance(d) /\ Logged("advance", d, FALSE)

SpecClock == InitClock /\ [][NextClock]_vars

\* Ids of every shape reach the store: a caller of set_state (the REST
\* state-write route passes its path parameter on) and the engines'
\* register_entity
InitIds ==
    /\ wall = 0
    /\ clock = ClockInit(0, 0, 1, FALSE)
    /\ calls = << >>
    /\ StoreInit(MaxHistory)
    /\ LoopInit
    /\ EngineInit
    /\ HomeInit

NextIds ==
    \/ \E id \in Ids :
          /\ writes < MaxWrites
          /\ CallSetState(1, id, "on", 0, EmptyDict, 0, EmptyDict, FALSE)
    \/ \E d \in Domains, id \in Ids : writes < MaxWrites /\ RegisterEntity(1, d, id)
    \/ Acquire(1)
    \/ Body(1)
    \/ Notify(1, FALSE)
    \/ Return(1, FALSE)

SpecIds == InitIds /\ [][NextIds]_vars

\* One caller that writes one entity, a new value with each write, into a
\* store that keeps at least one history entry, while wall time passes
WriteValue == << "v1", "v2", "v3", "v4", "v5", "v6" >>

InitHistory ==
    /\ wall = 0
    /\ clock = ClockInit(0, 0, 1, FALSE)
    /\ calls = << >>
    /\ \E mh \in 1..(MaxHistory + 1) : StoreInit(mh)
    /\ LoopInit
    /\ EngineInit
    /\ HomeInit

NextHistory ==
    \/ Tick
    \/ \E f \in BOOLEAN :
          /\ writes < MaxWrites
          /\ CallSetState(1, "light.a", WriteValue[writes + 1], 0, EmptyDict,
                          0, EmptyDict, f)
    \/ Acquire(1)
    \/ Body(1)
    \/ Notify(1, FALSE)
    \/ Return(1, FALSE)
    \/ AddListener(1, 1)

SpecHistory == InitHistory /\ [][NextHistory]_vars

\* The simulator's start() and stop() (simulator.py 257-296): the engines'
\* start() is called with every start, the loop is started and stopped, the
\* worker runs, wall time passes.  The engines' intervals are scaled down
\* to MaxRepeat seconds.
InitStart ==
    /\ wall = 0
    /\ clock = ClockInit(0, 0, 1, FALSE)
    /\ calls = << >>
    /\ StoreInit(MaxHistory)
    /\ LoopInit
    /\ EngineInit
    /\ HomeInit

NextStart ==
    \/ Tick
    \/ \E d \in {"light", "climate"} : scheduled < MaxTasks /\ EngineStart(d)
    \/ Start
    \/ StopSignal
    \/ \E b \in BOOLEAN : StopJoin(b)
    \/ \E w \in 1..MaxWorkers : WorkerCheck(w)
    \/ \E w \in 1..MaxWorkers : WorkerDrain(w)
    \/ \E w \in 1..MaxWorkers, raises \in BOOLEAN : WorkerCallback(w, raises)
    \/ \E w \in 1..MaxWorkers : WorkerSleep(w)
    \/ \E w \in 1..MaxWorkers : WorkerWake(w)

SpecStart == InitStart /\ [][NextStart]_vars

\* A registry with the light and the cover engine, two lights and a cover
\* that get registered, one listener, and one caller of call_service: known
\* and unknown domains and services, no target, one target, lists of
\* targets, owned or not, and data that turn_on accepts or raises on
ServiceTargets ==
    { NoTarget, ListTarget(<< >>), OneTarget("light.a"), OneTarget("cover.a"),
      ListTarget(<< "light.a", "light.b" >>), ListTarget(<< "cover.a", "light.a" >>) }

ServiceData == { {}, { <<"brightness", Some(5)>> }, { <<"brightness", None>> } }

InitService ==
    /\ wall = 0
    /\ clock = ClockInit(0, 0, 1, FALSE)
    /\ calls = << >>
    /\ StoreInit(MaxHistory)
    /\ LoopInit
    /\ EngineInit
    /\ HomeInit

NextService ==
    \/ \E id \in Entities : writes < MaxWrites /\ RegisterEntity(1, "light", id)
    \/ writes < MaxWrites /\ RegisterEntity(1, "cover", "cover.a")
    \/ \E domain \in {"light", "fan"}, service \in {"turn_on", "turn_off", "flash"},
          tgt \in ServiceTargets, data \in ServiceData :
          writes < MaxWrites /\ CallService(1, domain, service, tgt, data)
    \/ HandleServiceCall(1)
    \/ HandlerReturn(1)
    \/ ServiceReturn(1)
    \/ Acquire(1)
    \/ Body(1)
    \/ Notify(1, FALSE)
    \/ Return(1, FALSE)
    \/ AddListener(1, 1)

SpecService == InitService /\ [][NextService]_vars

\* The worker or an API thread (1) drives the light engine while another
\* API thread (2) writes the same entity through the REST state-write
\* route, with attributes of its own
RestAttrs == { { <<"brightness", 255>>, <<"color", 1>> } }

InitMerge ==
    /\ wall = 0
    /\ clock = ClockInit(0, 0, 1, FALSE)
    /\ calls = << >>
    /\ StoreInit(MaxHistory)
    /\ LoopInit
    /\ EngineInit
    /\ HomeInit

NextMerge ==
    \/ writes < MaxWrites /\ RegisterEntity(1, "light", "light.a")
    \/ \E service \in {"turn_on", "turn_off"}, data \in ServiceData :
          /\ writes < MaxWrites
          /\ CallService(1, "light", service, OneTarget("light.a"), data)
    \/ HandleServiceCall(1)
    \/ HandlerReturn(1)
    \/ ServiceReturn(1)
    \/ \E av \in RestAttrs :
          /\ writes < MaxWrites
          /\ CallSetState(2, "light.a", "on", MaxDicts + 1, av, 0, EmptyDict, FALSE)
    \/ \E t \in Threads : Acquire(t)
    \/ \E t \in Threads : Body(t)
    \/ \E t \in Threads : Notify(t, FALSE)
    \/ \E t \in Threads : Return(t, FALSE)

SpecMerge == InitMerge /\ [][NextMerge]_vars

\* One light that gets registered, two listeners that get added, and one
\* caller that turns the light on with a brightness and off
Brightness == { 0, 128, 255 }

InitLight ==
    /\ wall = 0
    /\ clock = ClockInit(0, 0, 1, FALSE)
    /\ calls = << >>
    /\ StoreInit(MaxHistory)
    /\ LoopInit
    /\ EngineInit
    /\ HomeInit

NextLight ==
    \/ Tick
    \/ writes < MaxWrites /\ RegisterEntity(1, "light", "light.a")
    \/ \E b \in Brightness :
          /\ writes < MaxWrites
          /\ CallService(1, "light", "turn_on", OneTarget("light.a"),
                         { <<"brightness", Some(b)>> })
    \/ writes < MaxWrites /\ CallService(1, "light", "turn_off", OneTarget("light.a"), {})
    \/ HandleServiceCall(1)
    \/ HandlerReturn(1)
    \/ ServiceReturn(1)
    \/ Acquire(1)
    \/ Body(1)
    \/ Notify(1, FALSE)
    \/ Return(1, FALSE)
    \/ \E l \in ListenerIds : AddListener(1, l)

SpecLight == InitLight /\ [][NextLight]_vars

\* One cover that gets registered and one caller that opens it, closes it
\* and sets its position, in and out of range
Positions == { -10, 30, 60, 100, 150 }

InitCover ==
    /\ wall = 0
    /\ clock = ClockInit(0, 0, 1, FALSE)
    /\ calls = << >>
    /\ StoreInit(MaxHistory)
    /\ LoopInit
    /\ EngineInit
    /\ HomeInit

NextCover ==
    \/ writes < MaxWrites /\ RegisterEntity(1, "cover", "cover.a")
    \/ \E p \in Positions :
          /\ writes < MaxWrites
          /\ CallService(1, "cover", "set_cover_position", OneTarget("cover.a"),
                         { <<"position", Some(p)>> })
    \/ \E service \in {"open_cover", "close_cover"} :
          /\ writes < MaxWrites
          /\ CallService(1, "cover", service, OneTarget("cover.a"), {})
    \/ HandleServiceCall(1)
    \/ HandlerReturn(1)
    \/ ServiceReturn(1)
    \/ Acquire(1)
    \/ Body(1)
    \/ Notify(1, FALSE)
    \/ Return(1, FALSE)

SpecCover == InitCover /\ [][NextCover]_vars

\* What random.gauss(0, 0.05) returns, in thousandths of a degree: values
\* near zero and about two standard deviations out
Noise == { -101, -1, 1, 101 }

\* One thermostat that gets registered, is set to heat through
\* climate.set_hvac_mode, and is ticked by the engine's interval callback
InitClimate ==
    /\ wall = 0
    /\ clock = ClockInit(0, 0, 1, FALSE)
    /\ calls = << >>
    /\ StoreInit(MaxHistory)
    /\ LoopInit
    /\ EngineInit
    /\ HomeInit

NextClimate ==
    \/ writes < MaxWrites /\ RegisterEntity(1, "climate", "climate.a")
    \/ \E mode \in {"heat", "off"} :
          /\ writes < MaxWrites
          /\ CallService(1, "climate", "set_hvac_mode", OneTarget("climate.a"),
                         { <<"hvac_mode", Some(mode)>> })
    \/ HandleServiceCall(1)
    \/ HandlerReturn(1)
    \/ ServiceReturn(1)
    \/ \E noise \in Noise :
          /\ writes < MaxWrites + MaxTicks
          /\ SimulateHvac(1, "climate.a", noise)
    \/ TickReturn(1)
    \/ Acquire(1)
    \/ Body(1)
    \/ Notify(1, FALSE)
    \/ Return(1, FALSE)

SpecClimate == InitClimate /\ [][NextClimate]_vars

\* An energy sensor that gets registered, a power sensor whose reading is
\* set once and stays (in tenths of a watt: 170 W, 500 W, 3600 W), and the
\* sensor engine's 10-second tick, while wall time passes
Powers == { 1700, 5000, 36000 }

InitEnergy ==
    /\ wall = 0
    /\ clock = ClockInit(0, 0, 1, FALSE)
    /\ calls = << >>
    /\ StoreInit(MaxHistory)
    /\ LoopInit
    /\ EngineInit
    /\ HomeInit

NextEnergy ==
    \/ Tick
    \/ writes = 0 /\ RegisterEntity(1, "sensor", "sensor.energy")
    \/ \E P \in Powers :
          /\ writes = 1
          /\ CallSetState(1, "sensor.power", Num(P), 0, EmptyDict, 0, EmptyDict, FALSE)
    \/ /\ writes >= 2
       /\ writes < 2 + MaxWrites
       /\ UpdatePowerSensors(1, "sensor.energy")
    \/ TickReturn(1)
    \/ Acquire(1)
    \/ Body(1)
    \/ Notify(1, FALSE)
    \/ Return(1, FALSE)

SpecEnergy == InitEnergy /\ [][NextEnergy]_vars

\* One switch with power monitoring that gets registered, an API thread
\* that turns it on and off through call_service, and the worker thread
\* that runs the engine's power-monitoring tick
InitSwitch ==
    /\ wall = 0
    /\ clock = ClockInit(0, 0, 1, FALSE)
    /\ calls = << >>
    /\ StoreInit(MaxHistory)
    /\ LoopInit
    /\ EngineInit
    /\ HomeInit

NextSwitch ==
    \/ writes = 0 /\ RegisterEntity(2, "switch", "switch.a")
    \/ \E service \in {"turn_on", "turn_off"} :
          /\ writes < MaxWrites + MaxTicks
          /\ CallService(2, "switch", service, OneTarget("switch.a"), {})
    \/ HandleServiceCall(2)
    \/ HandlerReturn(2)
    \/ ServiceReturn(2)
    \/ \E u \in Uniform :
          /\ writes < MaxWrites + MaxTicks
          /\ UpdatePowerMonitoring(1, "switch.a", u)
    \/ TickReturn(1)
    \/ \E t \in Threads : Acquire(t)
    \/ \E t \in Threads : Body(t)
    \/ \E t \in Threads : Notify(t, FALSE)
    \/ \E t \in Threads : Return(t, FALSE)

SpecSwitch == InitSwitch /\ [][NextSwitch]_vars

\* One thermostat that gets registered with the default hvac_modes or with
\* a list of its own, one caller of set_hvac_mode and set_temperature with
\* modes inside and outside the lists, and the engine's 1-minute tick
ModeLists == { << "off", "heat", "cool", "auto" >>, << "off", "heat" >>, << "off", "auto" >> }
Modes == { "heat", "auto", "dry" }

InitHvac ==
    /\ wall = 0
    /\ clock = ClockInit(0, 0, 1, FALSE)
    /\ calls = << >>
    /\ StoreInit(MaxHistory)
    /\ LoopInit
    /\ EngineInit
    /\ HomeInit

NextHvac ==
    \/ writes = 0 /\ RegisterEntity(1, "climate", "climate.a")
    \/ \E modes \in ModeLists :
          /\ writes = 0
          /\ RegisterEntityWith(1, "climate", "climate.a", { <<"hvac_modes", modes>> })
    \/ \E mode \in Modes :
          /\ writes < MaxWrites
          /\ CallService(1, "climate", "set_hvac_mode", OneTarget("climate.a"),
                         { <<"hvac_mode", Some(mode)>> })
    \/ \E mode \in Modes :
          /\ writes < MaxWrites
          /\ CallService(1, "climate", "set_temperature", OneTarget("climate.a"),
                         { <<"temperature", Some(220)>>, <<"hvac_mode", Some(mode)>> })
    \/ HandleServiceCall(1)
    \/ HandlerReturn(1)
    \/ ServiceReturn(1)
    \/ \E noise \in {-1, 1} :
          /\ writes < MaxWrites + MaxTicks
          /\ SimulateHvac(1, "climate.a", noise)
    \/ TickReturn(1)
    \/ Acquire(1)
    \/ Body(1)
    \/ Notify(1, FALSE)
    \/ Return(1, FALSE)

SpecHvac == InitHvac /\ [][NextHvac]_vars

\* One entity for each of four engines, and one caller of services the
\* schema lists for the entity's domain
SchemaEntity(domain) ==
    CASE domain = "light"   -> "light.a"
      [] domain = "switch"  -> "switch.a"
      [] domain = "climate" -> "climate.a"
      [] domain = "cover"   -> "cover.a"
Called == { "turn_on", "turn_off", "toggle", "set_hvac_mode", "open_cover", "close_cover" }
SchemaData(service) ==
    IF service = "set_hvac_mode" THEN { <<"hvac_mode", Some("heat")>> } ELSE { }

InitSchema ==
    /\ wall = 0
    /\ clock = ClockInit(0, 0, 1, FALSE)
    /\ calls = << >>
    /\ StoreInit(MaxHistory)
    /\ LoopInit
    /\ EngineInit
    /\ HomeInit

NextSchema ==
    \/ \E domain \in {"light", "switch", "climate", "cover"} :
          /\ writes < MaxWrites - 1
          /\ RegisterEntity(1, domain, SchemaEntity(domain))
    \/ \E domain \in {"light", "switch", "climate", "cover"} :
       \E service \in DefaultServices(domain) \cap Called :
          /\ writes < MaxWrites
          /\ CallService(1, domain, service, OneTarget(SchemaEntity(domain)),
                         SchemaData(service))
    \/ HandleServiceCall(1)
    \/ HandlerReturn(1)
    \/ ServiceReturn(1)
    \/ Acquire(1)
    \/ Body(1)
    \/ Notify(1, FALSE)
    \/ Return(1, FALSE)

SpecSchema == InitSchema /\ [][NextSchema]_vars

\* One sample_profile_counts call for every pair of raw samples up to the
\* bounds
InitProfile ==
    /\ wall = 0
    /\ clock = ClockInit(0, 0, 1, FALSE)
    /\ calls = << >>
    /\ StoreInit(MaxHistory)
    /\ LoopInit
    /\ EngineInit
    /\ occ = OccInit
    /\ \E raw_ents \in 0..MaxRawEntities, raw_devs \in 0..MaxRawDevices :
          counts = [ raw_ents |-> raw_ents, raw_devs |-> raw_devs, out |-> None ]

NextProfile == Sample

SpecProfile == InitProfile /\ [][NextProfile]_vars

\* One home with a motion sensor in the kitchen and a person, both written
\* to the store first; the occupancy tick at any time of any day, and a
\* caller that switches vacation mode on and off between ticks
Rnd == [ bed : BOOLEAN, pick : { "living_room", "kitchen", "office" },
         extra : { None, Some("kitchen"), Some("hallway") } ]

InitOccupancy ==
    /\ wall = 0
    /\ clock = ClockInit(0, 0, 1, FALSE)
    /\ calls = << >>
    /\ StoreInit(MaxHistory)
    /\ LoopInit
    /\ EngineInit
    /\ HomeInit

NextOccupancy ==
    \/ /\ writes = 0
       /\ CallSetState(1, "binary_sensor.h_motion_kitchen", "off", MaxDicts + 1,
                       { <<"area", "kitchen">> }, 0, EmptyDict, FALSE)
    \/ /\ writes = 1
       /\ CallSetState(1, "person.h", "home", MaxDicts + 1, { }, 0, EmptyDict, FALSE)
    \/ \E band \in Bands, is_weekday \in BOOLEAN, is_wfh_day \in BOOLEAN, rnd \in Rnd :
          /\ writes >= 2
          /\ writes < 2 + MaxWrites
          /\ UpdateOccupancy(1, band, is_weekday, is_wfh_day, rnd)
    \/ \E lucky \in BOOLEAN : UpdateMotionSensors(1, lucky)
    \/ UpdatePersonEntities(1)
    \/ OccupancyReturn
    \/ \E enabled \in BOOLEAN : SetVacationMode(enabled)
    \/ Acquire(1)
    \/ Body(1)
    \/ Notify(1, FALSE)
    \/ Return(1, FALSE)

SpecOccupancy == InitOccupancy /\ [][NextOccupancy]_vars

\* One worker that is started once and stopped, with interval tasks whose
\* interval is zero, negative or positive; wall time passes.  The worker
\* thread keeps running and every callback comes to an end.
Repeats == { 0, -1, MaxRepeat }

InitStop ==
    /\ wall = 0
    /\ clock = ClockInit(0, 0, 1, FALSE)
    /\ calls = << >>
    /\ StoreInit(MaxHistory)
    /\ LoopInit
    /\ EngineInit
    /\ HomeInit

NextStop ==
    \/ Tick
    \/ \E interval \in Repeats, b \in BOOLEAN :
          scheduled < MaxTasks /\ ScheduleInterval(interval, None, b)
    \/ wpc[1] = "unborn" /\ Start
    \/ StopSignal
    \/ \E b \in BOOLEAN : StopJoin(b)
    \/ WorkerCheck(1)
    \/ WorkerDrain(1)
    \/ \E raises \in BOOLEAN : WorkerCallback(1, raises)
    \/ WorkerSleep(1)
    \/ WorkerWake(1)

SpecStop ==
    /\ InitStop /\ [][NextStop]_vars
    /\ WF_vars(WorkerCheck(1))
    /\ WF_vars(WorkerDrain(1))
    /\ WF_vars(\E raises \in BOOLEAN : WorkerCallback(1, raises))
    /\ WF_vars(WorkerSleep(1))
    /\ WF_vars(WorkerWake(1))

\* Two threads that call schedule_task without a task id while one worker
\* runs the loop; tasks are cancelled and wall time passes
InitRace ==
    /\ wall = 0
    /\ clock = ClockInit(0, 0, 1, FALSE)
    /\ calls = << >>
    /\ StoreInit(MaxHistory)
    /\ LoopInit
    /\ EngineInit
    /\ HomeInit

NextRace ==
    \/ Tick
    \/ \E t \in Threads, d \in 0..MaxDelay, repeat \in { None, Some(MaxRepeat) } :
          scheduled < MaxTasks /\ ScheduleTaskEnter(t, d, repeat, None)
    \/ \E t \in Threads : CounterLoad(t)
    \/ \E t \in Threads : CounterStore(t)
    \/ \E t \in Threads : NameTask(t)
    \/ \E t \in Threads : PushTask(t)
    \/ \E t \in Threads : ScheduleTaskReturn(t)
    \/ CancelTask(AutoId(1))
    \/ wpc[1] = "unborn" /\ Start
    \/ WorkerCheck(1)
    \/ WorkerDrain(1)
    \/ \E raises \in BOOLEAN : WorkerCallback(1, raises)
    \/ WorkerSleep(1)
    \/ WorkerWake(1)

SpecRace == InitRace /\ [][NextRace]_vars

\* The loop with tasks scheduled at any time, past or future, while it
\* runs; the loop is started and stopped, wall time passes, and the
\* worker's test of the head and its pop are separate steps
InitDrain ==
    /\ wall = 0
    /\ clock = ClockInit(0, 0, 1, FALSE)
    /\ calls = << >>
    /\ StoreInit(MaxHistory)
    /\ LoopInit
    /\ EngineInit
    /\ HomeInit

NextDrain ==
    \/ Tick
    \/ \E run_at \in 0..MaxWall, repeat \in { None, Some(1) } :
          scheduled < MaxTasks /\ ScheduleAt(run_at, repeat, None)
    \/ Start
    \/ StopSignal
    \/ \E b \in BOOLEAN : StopJoin(b)
    \/ \E w \in 1..MaxWorkers : WorkerCheck(w)
    \/ \E w \in 1..MaxWorkers : DrainCheck(w)
    \/ \E w \in 1..MaxWorkers : DrainPop(w)
    \/ \E w \in 1..MaxWorkers, raises \in BOOLEAN : WorkerCallback(w, raises)
    \/ \E w \in 1..MaxWorkers : WorkerSleep(w)
    \/ \E w \in 1..MaxWorkers : WorkerWake(w)

SpecDrain == InitDrain /\ [][NextDrain]_vars

\* ------------------------------------------------------------- claims
\* What the store's readers see: get_state and get_history of every entity
StoreView == [e \in Entities |-> << GetState(e), GetHistory(e) >>]

\* C1: every listener receives the notifications in the order in which the
\* writes were committed: the i-th call a listener gets since it was added
\* is for the i-th notifying write committed since then, so all listeners
\* see one total order, whatever the interleaving of the writing threads.
C1_ListenersSeeCommitOrder ==
    \A l \in ListenerIds : \A i \in 1..Len(received[l]) :
        received[l][i].seq = regAt[l] + i

\* C1 witness: a listener has been called for writes of two different
\* threads while another thread was waiting for the lock
C1_Witness ==
    \E l \in ListenerIds :
        /\ Len(received[l]) >= 2
        /\ received[l][1].by # received[l][2].by
        /\ received[l][1].entity_id # received[l][2].entity_id
        /\ \E t \in Threads : pc[t] = "acquire" /\ lockOwner \notin {0, t}

\* C2: a write with the stored state and the stored attributes and
\* force_update = false leaves the stored record (last_updated and context
\* included) and the history unchanged and calls no listener.
C2_UnchangedWriteIsNoOp ==
    [][\A t \in Threads :
          LET e == frame[t].entity_id
          IN  ( /\ Body(t)
                /\ states[e] # 0
                /\ Clone(states[e]).state = frame[t].state
                /\ Clone(states[e]).attributes =
                      (IF frame[t].attributes = 0 THEN EmptyDict
                       ELSE Val(dicts[frame[t].attributes]))
                /\ ~frame[t].force_update )
              => ( /\ StoreView' = StoreView
                   /\ pc'[t] = "return" )]_vars

\* C3: the history of every entity is never longer than max_history, for
\* every max_history >= 0.
C3_HistoryBounded ==
    \A e \in Entities : Len(history[e]) <= max_history

\* C4: a caller that writes through the dict it passed to set_state, or
\* through the record set_state returned, does not change what get_state
\* and get_history return.
C4_HandedOutValuesAreCopies ==
    [][ ( \/ \E d \in DictRefs, v \in AttrDicts : MutateDict(d, v)
          \/ \E r \in RecRefs, s \in StateValues : MutateRec(r, s) )
        => StoreView' = StoreView ]_vars

\* C5: the stored record's last_updated is the simulated clock's now() at the
\* moment of the write.
C5_StampedWithSimulatedTime ==
    \A e \in Entities :
        states[e] # 0 => Some(Clone(states[e]).last_updated) = writeSim[e]

\* A worker starts a task's callback in this step
Fires(w) == wpc[w] # "callback" /\ wpc'[w] = "callback"

\* C6: no task callback is started while the clock is paused, that is
\* between a pause() that has returned and the next resume().
C6_NoFiringWhilePaused ==
    [][\A w \in 1..MaxWorkers : Fires(w) => ~clock.paused]_vars

\* C7: a repeating task's run_at is always its first run_at plus a multiple
\* of its interval: each firing adds exactly the interval, however late the
\* worker saw that the task was due.
C7_RepeatIsDriftFree ==
    \A i \in 1..Len(tasks) : Truthy(tasks[i].repeat) => tasks[i].run_at = tasks[i].due

\* C8: the queue holds at most one live (non-cancelled) task per task_id.
C8_OneLiveTaskPerId ==
    \A i, j \in 1..Len(tasks) :
        (i # j /\ tasks[i].task_id = tasks[j].task_id) => IsNone(tasks[i].task_id)

\* C9: once cancel_task(id) has returned true, no callback of a task with
\* that id is started and no task with that id is pushed back into the queue.
C9_CancelledNeverFires ==
    [][\A w \in 1..MaxWorkers :
          /\ Fires(w) => Val(Val(wtask'[w]).task_id) \notin cancelled
          /\ (wpc[w] = "callback" /\ Len(tasks') > Len(tasks))
                => Val(Val(wtask[w]).task_id) \notin cancelled]_vars

\* C10: at most one worker is inside _run_loop and at most one callback runs
\* at any time, for any sequence of start() and stop(timeout) calls.
C10_OneWorker ==
    /\ Cardinality({ w \in 1..MaxWorkers : wpc[w] \notin {"unborn", "dead"} }) <= 1
    /\ Cardinality({ w \in 1..MaxWorkers : wpc[w] = "callback" }) <= 1

\* C11: when stop(timeout) returns, the tasks that had not fired are
\* discarded: the queue is empty (so a later start() finds none of them).
C11_StopEmptiesQueue ==
    [][(\E timed_out \in BOOLEAN : StopJoin(timed_out)) => tasks' = << >>]_vars

\* C12: after every firing of a task with repeat set, whether its callback
\* returned or raised, the task is back in the queue with
\* run_at = now + repeat.
C12_RepeatSurvivesException ==
    [][\A w \in 1..MaxWorkers, raises \in BOOLEAN :
          (WorkerCallback(w, raises) /\ ~IsNone(Val(wtask[w]).repeat))
          => \E i \in 1..Len(tasks') :
                /\ tasks'[i].task_id = Val(wtask[w]).task_id
                /\ tasks'[i].run_at = wnow[w] + Val(Val(wtask[w]).repeat)]_vars

\* C13: tasks scheduled while the clock is paused stay queued until the
\* clock is resumed.  The clock of SpecPause is paused from its construction
\* until its only resume(), so as long as it is paused every task scheduled
\* so far was scheduled during the pause and is to be in the queue.
C13_ScheduledWhilePausedStayQueued ==
    clock.paused => Len(tasks) = scheduled

\* What now() returns
Now == ClockNow(clock, wall)

\* C14: wall_time_until(target) is (target - now()) / speed when the clock
\* is running and target > now(), nothing when target <= now(), and nothing
\* for every target while the clock is paused.
C14_WallTimeUntil ==
    \A target \in Targets :
        WallTimeUntil(clock, wall, target) =
            IF clock.paused \/ target <= Now THEN None
            ELSE Some([ num |-> target - Now, den |-> clock.speed ])

\* The call the caller made last
LastCall == calls[Len(calls)]

\* Neither set_time nor advance is in the log
NoJump(log) == \A i \in 1..Len(log) : log[i].op \notin {"set_time", "advance"}

\* C15: as long as neither set_time nor advance has been called, no step
\* (wall time passing, pause, resume, set_speed) makes now() smaller, and a
\* step that starts or ends with the clock paused leaves now() as it was: it
\* is constant during a pause and resume() continues from the frozen value.
C15_NowMonotone ==
    [][NoJump(calls') =>
          /\ Now' >= Now
          /\ (clock.paused \/ clock'.paused) => Now' = Now]_vars

\* C15 witness: without any jump, the clock was paused, wall time passed,
\* it was resumed, its speed was set and wall time has passed since
C15_Witness ==
    /\ NoJump(calls)
    /\ ~clock.paused
    /\ wall > clock.wall_start
    /\ \E i, k \in 1..Len(calls) :
          /\ i + 1 \in 1..Len(calls)
          /\ calls[i].op = "pause"
          /\ calls[i + 1].op = "resume"
          /\ calls[i + 1].at > calls[i].at
          /\ calls[k].op = "set_speed"
          /\ ~calls[k].raised

\* C16: set_speed(s) with s > 0 leaves now() as it is and makes the speed
\* s; a later resume() keeps both; and while the clock runs, one unit of
\* wall time adds the speed to now().
C16_SetSpeedKeepsNow ==
    [][ /\ \A s \in Speeds : SetSpeed(s) => (Now' = Now /\ clock'.speed = s)
        /\ Resume => (Now' = Now /\ clock'.speed = clock.speed)
        /\ (Tick /\ ~clock.paused) => Now' = Now + clock.speed ]_vars

\* C16 witness: the clock was paused, wall time passed, set_speed(MaxSpeed)
\* was called during the pause, the clock was resumed and has run since
C16_Witness ==
    /\ ~clock.paused
    /\ wall > clock.wall_start
    /\ clock.speed = MaxSpeed
    /\ \E k \in 1..Len(calls) :
          /\ k + 2 \in 1..Len(calls)
          /\ calls[k].op = "pause"
          /\ calls[k + 1].op = "set_speed"
          /\ calls[k + 1].arg = MaxSpeed
          /\ calls[k + 1].at > calls[k].at
          /\ calls[k + 2].op = "resume"

\* C17: a pause() on a paused clock changes neither now(), nor the frozen
\* value, nor the paused flag, however much wall time has passed since the
\* clock was paused.
C17_PauseIdempotent ==
    [][(Pause /\ clock.paused) =>
          /\ Now' = Now
          /\ clock'.pause_sim_time = clock.pause_sim_time
          /\ clock'.paused]_vars

\* C17 witness: pause() was called on a running clock and again after wall
\* time had passed
C17_Witness ==
    /\ clock.paused
    /\ \E k \in 1..Len(calls) :
          /\ k + 1 \in 1..Len(calls)
          /\ calls[k].op = "pause"
          /\ clock.pause_time = Some(calls[k].at)
          /\ calls[k + 1].op = "pause"
          /\ calls[k + 1].at > calls[k].at

\* C18: a set_speed(s) call with s <= 0 raises and leaves every field of
\* the clock (speed, both anchors, pause state) as it was.
C18_BadSpeedRejected ==
    [][(Len(calls') > Len(calls) /\ LastCall'.op = "set_speed" /\ LastCall'.arg <= 0)
          => (LastCall'.raised /\ clock' = clock)]_vars

\* C18 witness: set_speed was called with a speed <= 0 on a running clock
\* whose anchor is in the past, and raised
C18_Witness ==
    /\ calls # << >>
    /\ LastCall.op = "set_speed"
    /\ LastCall.arg <= 0
    /\ LastCall.raised
    /\ ~clock.paused
    /\ LastCall.at > clock.wall_start

\* The last element of a non-empty list
Last(l) == l[Len(l)]

\* C19: when a listener has raised during the fan-out of a write, set_state
\* still reaches its return statement without an exception, every
\* registered listener has been called for that write, the new record is the
\* stored one and the prior record is the newest history entry.
C19_RaisingListenerIsSkipped ==
    \A t \in Threads :
        LET f == frame[t]
            e == f.entity_id
        IN  (pc[t] = "return" /\ f.failed # {}) =>
               /\ ~f.raised
               /\ \A i \in 1..Len(listeners) :
                     /\ received[listeners[i]] # << >>
                     /\ Last(received[listeners[i]]).seq = f.seq
               /\ states[e] = f.new_state
               /\ (f.old_state # 0 /\ f.state_changed /\ max_history > 0)
                     => (history[e] # << >> /\ Last(history[e]) = Clone(f.old_state))

\* C19 witness: a write that changed a stored record is about to return;
\* the first of two listeners raised
C19_Witness ==
    \E t \in Threads :
        /\ pc[t] = "return"
        /\ Len(listeners) = 2
        /\ listeners[1] \in frame[t].failed
        /\ listeners[2] \notin frame[t].failed
        /\ frame[t].old_state # 0
        /\ frame[t].state_changed

\* C20: the stored record and every history entry of every entity have
\* last_changed <= last_updated, after changed, unchanged and forced writes
\* (the wall clock that stamps them is not set back).
C20_ChangedNotAfterUpdated ==
    \A e \in Entities :
        /\ states[e] # 0 => Clone(states[e]).last_changed <= Clone(states[e]).last_updated
        /\ \A i \in 1..Len(history[e]) :
              history[e][i].last_changed <= history[e][i].last_updated

\* C20 witness: a record changed at one time and updated, unchanged, at a
\* later time, with an older record in the history
C20_Witness ==
    \E e \in Entities :
        /\ states[e] # 0
        /\ Clone(states[e]).last_changed < Clone(states[e]).last_updated
        /\ history[e] # << >>

\* C21: every entity_id present in the state store has the form
\* <domain>.<name>, with exactly one '.' and a non-empty domain and name,
\* whatever ids are passed to set_state, register_entity or the REST
\* state-write route
C21_StoredIdsAreWellFormed ==
    \A id \in Ids : states[id] # 0 => WellFormed(id)

\* C22: with max_history = N, after more than N state-changing writes to
\* one entity get_history returns exactly N entries, and the oldest of them
\* is the value written by the N-th-from-last write
C22_OldestIsNthFromLast ==
    (pc[1] = "idle" /\ writes > max_history) =>
        /\ Len(GetHistory("light.a")) = max_history
        /\ GetHistory("light.a")[1].state = WriteValue[writes - max_history + 1]

\* C26: an engine's start() is idempotent: however often it has been
\* called, the scheduler holds the engine's recurring task once
C26_StartIsIdempotent ==
    \A d \in Domains :
        Cardinality({ i \in 1..Len(tasks) : tasks[i].task_id = Some(StartTaskId(d)) }) <= 1

\* The position of an id in a list of distinct ids, 0 if it is not there
Pos(l, x) == IF InList(l, x) THEN CHOOSE i \in 1..Len(l) : l[i] = x ELSE 0

\* C23: call_service with a list of ids invokes the handler once per id in
\* list order, also after a target that failed or raised; it never raises,
\* its outcome reports failure for exactly the failing targets, and the
\* notifications come in the order of the list
C23_ListDispatch ==
    \A t \in Threads :
        (eng[t].pc = "done" /\ eng[t].is_list) =>
            LET f == eng[t]
                notes == SelectSeq(received[1], LAMBDA n : n.seq > f.seq0)
            IN  /\ f.invoked = f.tgt.ids
                /\ Len(f.results) = Len(f.tgt.ids)
                /\ ~IsNone(f.ret)
                /\ \A i \in 1..Len(f.results) : (Val(f.ret) = FALSE) <=> ~f.results[i]
                /\ \A i, j \in 1..Len(notes) :
                      i < j => Pos(f.tgt.ids, notes[i].entity_id)
                                  <= Pos(f.tgt.ids, notes[j].entity_id)

\* C24: call_service for a known domain with no target invokes the engine's
\* handle_service_call exactly once, with no entity id, and returns its
\* outcome
C24_NoTargetInvokesOnce ==
    \A t \in Threads :
        (eng[t].pc = "done" /\ eng[t].domain \in Engines /\ Falsy(eng[t].tgt)) =>
            Len(eng[t].invoked) = 1

\* C25: call_service for an unknown domain, for a service the engine has no
\* handler for, or for ids the engine does not own returns a failed result
\* and leaves the store as it was: no state, no history entry and no
\* notification is new
C25_FailedCallChangesNothing ==
    \A t \in Threads :
        LET f == eng[t]
        IN  ( /\ f.pc = "done"
              /\ \/ f.domain \notin Engines
                 \/ ~HasServiceHandler(f.domain, f.service)
                 \/ /\ f.tgt.ids # << >>
                    /\ \A i \in 1..Len(f.tgt.ids) : f.tgt.ids[i] \notin entities[f.domain] )
            => /\ f.ret = Some(FALSE)
               /\ StoreViewAll = Val(f.base)
               /\ Len(commitLog) = f.seq0

C25_Witness ==
    /\ eng[1].pc = "done"
    /\ eng[1].domain = "light" /\ eng[1].service = "turn_on"
    /\ eng[1].tgt = OneTarget("cover.a")
    /\ eng[1].invoked = << "cover.a" >>
    /\ states["cover.a"] # 0
    /\ InList(listeners, 1)
    /\ eng[1].ret = Some(FALSE)

\* C27: a write made through an engine's _update_state never removes an
\* attribute: the keys the entity has after the write include the keys it
\* had before it, and an attribute the delta does not name keeps its value
C27_UpdateKeepsAttributes ==
    [][ \A t \in Threads :
          ( /\ Body(t)
            /\ eng[t].pc \in {"written", "tick"}
            /\ states[frame[t].entity_id] # 0 )
          => LET e == frame[t].entity_id
                 before == Clone(states[e]).attributes
                 after == CloneIn(recs', dicts', states'[e]).attributes
             IN  /\ Keys(before) \subseteq Keys(after)
                 /\ \A p \in before : ~HasKey(eng[t].delta, p[1]) => p \in after ]_vars

\* The state of the call's target when the call began
Before(f) == Val(Val(f.base)[f.tgt.ids[1]][1])

\* The notifications listener l got since the call began
Since(f, l) == SelectSeq(received[l], LAMBDA n : n.seq > f.seq0)

\* call_service has returned for light.turn_on with a brightness, on a
\* registered light that was off and had the given attributes
TurnedOn(f) ==
    /\ f.pc = "done" /\ f.service = "turn_on"
    /\ f.tgt.ids[1] \in entities["light"]
    /\ Before(f).state = "off"

\* call_service has returned for light.turn_off on a registered light that
\* was on
TurnedOff(f) ==
    /\ f.pc = "done" /\ f.service = "turn_off"
    /\ f.tgt.ids[1] \in entities["light"]
    /\ Before(f).state = "on"

\* C28: for a registered light that is off, light.turn_on with brightness b
\* gives state on, brightness b and one notification per listener, whose
\* old state is off; a following light.turn_off gives state off with the
\* brightness as it was and one further notification per listener
C28_TurnOnThenOff ==
    /\ [](\A t \in Threads :
            LET f == eng[t]
                now == Val(GetState(f.tgt.ids[1]))
            IN  /\ TurnedOn(f) =>
                      /\ f.ret = Some(TRUE)
                      /\ now.state = "on"
                      /\ Get(now.attributes, "brightness") = Val(Get(f.data, "brightness"))
                      /\ \A l \in ListenerIds :
                            (InList(listeners, l) /\ regAt[l] <= f.seq0) =>
                                Len(Since(f, l)) = 1
                /\ TurnedOff(f) =>
                      /\ f.ret = Some(TRUE)
                      /\ now.state = "off"
                      /\ Get(now.attributes, "brightness")
                            = Get(Before(f).attributes, "brightness")
                      /\ \A l \in ListenerIds :
                            (InList(listeners, l) /\ regAt[l] <= f.seq0) =>
                                Len(Since(f, l)) = 1)
    /\ [][ \A t \in Threads :
             ( /\ Notify(t, FALSE)
               /\ frame[t].idx <= Len(listeners)
               /\ eng[t].pc = "written" /\ eng[t].service = "turn_on"
               /\ Before(eng[t]).state = "off" )
             => /\ Clone(frame[t].old_state).state = "off"
                /\ Clone(frame[t].new_state).state = "on" ]_vars

\* Two listeners have been told of a turn_on with brightness 128 and of the
\* turn_off that followed it
C28_Witness ==
    /\ TurnedOff(eng[1])
    /\ Get(Before(eng[1]).attributes, "brightness") = 128
    /\ \A l \in ListenerIds :
          /\ InList(listeners, l)
          /\ Len(received[l]) >= 2
          /\ Len(Since(eng[1], l)) = 1

\* C29: after cover.set_cover_position(p), with p clamped to 0..100, the
\* stored current_position is p and the state is closed for 0, open for
\* 100, and otherwise opening if p is greater than the position before the
\* call and closing if it is smaller
C29_CoverDirection ==
    \A t \in Threads :
        LET f == eng[t]
            p == Max(0, Min(100, Val(Get(f.data, "position"))))
            was == Get(Before(f).attributes, "current_position")
            now == Val(GetState(f.tgt.ids[1]))
        IN  ( /\ f.pc = "done" /\ f.service = "set_cover_position"
              /\ f.tgt.ids[1] \in entities["cover"] )
            => /\ Get(now.attributes, "current_position") = p
               /\ p = 0 => now.state = "closed"
               /\ p = 100 => now.state = "open"
               /\ (0 < p /\ p < 100 /\ p > was) => now.state = "opening"
               /\ (0 < p /\ p < 100 /\ p < was) => now.state = "closing"

\* C30: for a climate entity in state heat whose current_temperature is
\* below its target, a tick never lowers current_temperature; and the tick
\* that finds current_temperature at or above the target turns the state
\* to off
C30_HeatingIsMonotone ==
    [][ \A t \in Threads :
          ( /\ Body(t)
            /\ eng[t].pc = "tick"
            /\ Clone(states[frame[t].entity_id]).state = "heat" )
          => LET e == frame[t].entity_id
                 before == Clone(states[e])
                 after == CloneIn(recs', dicts', states'[e])
                 current == Get(before.attributes, "current_temperature")
                 target == Get(before.attributes, "temperature")
             IN  /\ current < target =>
                       Get(after.attributes, "current_temperature") >= current
                 /\ current >= target => after.state = "off" ]_vars

\* C31: after k ticks at a constant power reading P > 0 the energy value is
\* the initial value plus k * P / 360000 kWh to within 0.001 kWh, and it
\* never decreases.  The sensor starts at 0; writes counts the register,
\* the setting of the power reading and the k ticks; values are in
\* thousandths of a kWh times 3600.
C31_EnergyIntegratesPower ==
    (pc[1] = "idle" /\ eng[1].pc = "idle" /\ writes >= 2) =>
        LET k == writes - 2
            P == FloatOf(Val(GetState("sensor.power")).state)
            E == FloatOf(Val(GetState("sensor.energy")).state)
            h == GetHistory("sensor.energy")
        IN  /\ 3600 * E - k * P <= 3600
            /\ k * P - 3600 * E <= 3600
            /\ \A i \in 1..Len(h) : FloatOf(h[i].state) <= E

\* C34: a tick that only refreshes an attribute never changes the state
\* value of its entity, whatever the interleaving with service calls: when
\* the write of a power-monitoring tick is committed while no service call
\* is running (a switch.turn_off that ran since the tick began has
\* returned), the switch keeps the state value it had.
C34_TickKeepsState ==
    [][ ( /\ Body(1)
          /\ eng[1].pc = "tick"
          /\ eng[2].pc = "idle"
          /\ pc[2] = "idle" )
        => CloneIn(recs', dicts', states'["switch.a"]).state
              = Clone(states["switch.a"]).state ]_vars

\* C38: after any sequence of climate service calls and HVAC ticks the
\* state of a climate entity is off or one of the modes in its own
\* hvac_modes attribute.
C38_StateIsAnHvacMode ==
    ~IsNone(GetState("climate.a")) =>
        LET st == Val(GetState("climate.a"))
        IN  st.state = "off" \/ InList(Get(st.attributes, "hvac_modes"), st.state)

\* C39: every service the schema lists for a domain with an engine is
\* handled: call_service for it on an entity the engine owns returns True.
C39_ListedServiceIsHandled ==
    LET f == eng[1]
    IN  ( /\ f.pc = "done"
          /\ f.service \in DefaultServices(f.domain)
          /\ f.tgt.kind = "one"
          /\ f.tgt.ids[1] \in entities[f.domain] )
        => f.ret = Some(TRUE)

\* C33: for every pair of raw samples sample_profile_counts returns
\* total_entities >= 50 and total_devices >= 1 with
\* 3.5 <= total_entities / total_devices <= 7.5.
C33_RatioInBand ==
    ~IsNone(counts.out) =>
        LET out == Val(counts.out)
        IN  /\ out.total_entities >= 50
            /\ out.total_devices >= 1
            /\ 2 * out.total_entities >= 7 * out.total_devices
            /\ 2 * out.total_entities <= 15 * out.total_devices

\* C32: after every occupancy tick each motion sensor of the home is on
\* exactly when its area is in active_areas, and each person of the home
\* is home exactly when is_home is true.
C32_TickPropagates ==
    occ.pc = "done" =>
        \A i \in 1..Len(HomeIds) :
            LET id == HomeIds[i]
            IN  states[id] # 0 =>
                  /\ IsMotionSensorOf(id, HomeId) =>
                        ( Clone(states[id]).state = "on"
                             <=> Get(Clone(states[id]).attributes, "area")
                                    \in occ.active_areas )
                  /\ IsPersonOf(id, HomeId) =>
                        ( Clone(states[id]).state = "home" <=> occ.is_home )

\* C40: from set_vacation_mode(true) until set_vacation_mode(false), after
\* every occupancy tick is_home is false and active_areas is empty, the
\* persons of the home are away and its motion sensors are off.
C40_VacationHolds ==
    (occ.pc = "done" /\ occ.vacation) =>
        /\ ~occ.is_home
        /\ occ.active_areas = { }
        /\ \A i \in 1..Len(HomeIds) :
              LET id == HomeIds[i]
              IN  states[id] # 0 =>
                    /\ IsMotionSensorOf(id, HomeId) => Clone(states[id]).state = "off"
                    /\ IsPersonOf(id, HomeId) => Clone(states[id]).state = "away"

\* C37: once stop() has signalled the worker, the worker's loop ends,
\* whatever the queue holds: the drain of due tasks comes to an end also
\* with a repeating task whose interval is zero or negative.
C37_WorkerEndsAfterStop ==
    (stop_event /\ wpc[1] # "unborn") ~> (wpc[1] = "dead")

\* C35: schedule_task calls of API threads interleaved with the worker
\* never hand out the same auto-generated task id twice, never queue two
\* tasks under one auto-generated id, and keep the heap property: the head
\* of the queue has the minimal run_at.
C35_SchedulerIsSerialized ==
    /\ \A t1 \in Threads, t2 \in Threads :
          ( /\ t1 # t2
            /\ api[t1].auto /\ api[t1].pc \in { "push", "done" }
            /\ api[t2].auto /\ api[t2].pc \in { "push", "done" } )
          => api[t1].task_id # api[t2].task_id
    /\ \A i \in 1..Len(tasks), j \in 1..Len(tasks) :
          (i # j /\ ~IsNone(tasks[i].task_id)) => tasks[i].task_id # tasks[j].task_id
    /\ \A i \in 1..Len(tasks) : tasks[1].run_at <= tasks[i].run_at

\* C36: a callback is started only in a worker iteration whose reading of
\* the clock, now, has run_at <= now; within one iteration the tasks are
\* popped in non-decreasing run_at order; and a repeating task with a
\* positive interval fires at most once per iteration: it is pushed back
\* with a run_at beyond the iteration's now.
C36_FiresWhenDueInOrder ==
    \A w \in 1..MaxWorkers :
        /\ wpc[w] = "callback" => Val(wtask[w]).run_at <= wnow[w]
        /\ Len(wlast[w]) = 2 => wlast[w][1] <= wlast[w][2]
        /\ ( /\ wpc[w] = "callback"
             /\ Truthy(Val(wtask[w]).repeat)
             /\ Val(Val(wtask[w]).repeat) > 0 )
           => Rescheduled(Val(wtask[w]), wnow[w]).run_at > wnow[w]

====
